---- MODULE Spec2Model ----
(***************************************************************************)
(* State-machine model of the NeuroGrip maze game: the outer application   *)
(* loop (Game.run), the menu handlers, the level loop (Game._play_level)   *)
(* and the hand-over of completed level records, for the two game modules  *)
(* of the repository: src/game.py (text-baseline variant, "text") and      *)
(* src/database/maze_final_database/game.py (database variant, "db").      *)
(*                                                                         *)
(* Numbers.  Positions are pygame Rect coordinates, which are integers     *)
(* (a float assigned to rect.x is truncated toward zero).  Velocities are  *)
(* Python floats; they are modelled in fixed point, in thousandths of a    *)
(* pixel per second, rounded to nearest after every multiplication.  Frame *)
(* times are the integer milliseconds returned by clock.tick.              *)
(***************************************************************************)
EXTENDS Integers, Sequences, FiniteSets, TLC

VARIABLES
    variant,                  \* "text" (src/game.py) or "db" (database variant)
    ser,                      \* TRUE iff the serial device was opened in __init__
    LEVELS,                   \* settings.LEVELS: level name -> grid of cells
    running,                  \* self.running
    game_state,               \* self.game_state
    pc,                       \* "run": outer loop dispatch, "level": inside the level loop
    user_type,                \* self.user_type (text variant)
    user_info,                \* (self.user_name, self.user_gender, self.user_age)
    player_id,                \* self.player_id (db variant), 0 is None
    session_id,               \* self.session_id (db variant), 0 is None
    current_level_index,      \* self.current_level_index
    completed_levels_metrics, \* self.completed_levels_metrics
    current_level_metrics,    \* self.current_level_metrics
    heap,                     \* the list objects the metrics dicts refer to
    current_fsr,              \* self.current_fsr
    accel_data,               \* self.accel_data
    gyro_data,                \* self.gyro_data
    starts,                   \* number of Start Game actions that entered "playing"
    Players,                  \* table Players (db variant)
    GameSessions,             \* table GameSessions: row i holds the player id of session i
    LevelResults,             \* table LevelResults, in id order
    save_calls,               \* the arguments of the calls of database.save_level_result
    report,                   \* the report payload of the last report generation
    thresholds_file,          \* normal_user_thresholds.txt, the population baseline store
    barriers,                 \* _play_level: top-left corners of the Barrier sprites
    hole,                     \* _play_level: hole.rect.center
    player_rect,              \* _play_level: (player.rect.x, player.rect.y)
    player_velocity,          \* _play_level: player_velocity
    target_velocity,          \* _play_level: target_velocity
    elapsed,                  \* _play_level: time.time() - start_time, in ms
    level_running,            \* _play_level: level_running
    frames,                   \* number of iterations of the level loop so far
    dt,                       \* _play_level: dt of the last frame, in ms
    hardware_connected,       \* _play_level: result of the last _read_hardware_data
    line,                     \* _read_hardware_data: the line the last poll found waiting
    keys,                     \* _play_level: the direction keys of the last get_pressed()
    old_pos,                  \* _play_level: (old_x, old_y) of the last frame
    x_collisions,             \* _play_level: x_collisions of the last frame was non-empty
    y_collisions              \* _play_level: y_collisions of the last frame was non-empty

cfgVars  == <<variant, ser, LEVELS>>
userVars == <<user_type, user_info, player_id>>
hwVars   == <<current_fsr, accel_data, gyro_data>>
dbVars   == <<Players, GameSessions, LevelResults, save_calls>>
lvlVars  == <<barriers, hole, player_rect, player_velocity, target_velocity, elapsed,
              level_running, frames, dt, hardware_connected, line, keys, old_pos,
              x_collisions, y_collisions>>
vars     == <<cfgVars, running, game_state, pc, userVars, session_id, current_level_index,
              completed_levels_metrics, current_level_metrics, heap, hwVars, starts,
              dbVars, report, thresholds_file, lvlVars>>

(***************************************************************************)
(* Bounds of the model.                                                    *)
(***************************************************************************)
MaxFrames == 6          \* iterations of the level loop per level attempt (Spec)
MaxLevelFrames == 5     \* iterations of the level loop of the attempt of SpecLevel
MaxPollFrames == 2      \* iterations of the level loop of the attempt of SpecPoll
MaxLayoutFrames == 2    \* iterations of the level loop of the attempt of SpecLayouts
MaxRunFrames == 45      \* iterations of the level loop of the attempt of SpecRun
MaxStarts == 2          \* Start Game actions per run of the application
MaxRecords == 2         \* completed records of the session a report is generated for

(***************************************************************************)
(* Program constants.                                                      *)
(***************************************************************************)
TILE_SIZE == 40
PLAYER_SPEED == 260
PLAYER_ACCELERATION_TENTHS == 1     \* PLAYER_ACCELERATION = 0.1
PLAYER_BOUNCINESS_TENTHS == 4       \* PLAYER_BOUNCINESS = 0.4
TILT_SENSITIVITY == 5000
FSR_THRESHOLD == 500
MAX_FSR_VALUE == 4095
BALL_SIZE == 20                     \* Ball(size=(20, 20))
CAPTURE_RADIUS == 15                \* distance_to(hole.rect.center) < 15
MAX_DT_MS == 100                    \* dt = min(dt, 0.1)
SIM_FSR_LOW_OFFSET == 200           \* random.uniform(FSR_THRESHOLD + 200, ...)
SIM_FSR_HIGH_OFFSET == 500          \* random.uniform(..., MAX_FSR_VALUE - 500)

level_sequence == <<"Easy", "Medium", "Hard">>
fsr_threshold == FSR_THRESHOLD

(***************************************************************************)
(* Arithmetic helpers.                                                     *)
(***************************************************************************)
Abs(a) == IF a >= 0 THEN a ELSE -a
Min(a, b) == IF a <= b THEN a ELSE b
Max(a, b) == IF a >= b THEN a ELSE b

\* int(a / b) of Python for b > 0: truncation toward zero.
TruncDiv(a, b) == IF a >= 0 THEN a \div b ELSE -((-a) \div b)

\* a / b rounded to the nearest unit of the fixed-point representation.
RoundDiv(a, b) == IF a >= 0 THEN (2 * a + b) \div (2 * b) ELSE -((2 * (-a) + b) \div (2 * b))

clamp(v, lo, hi) == Max(lo, Min(hi, v))

RECURSIVE ISqrtIn(_, _, _)
ISqrtIn(n, lo, hi) ==
    IF hi - lo <= 1 THEN lo
    ELSE LET mid == (lo + hi) \div 2
         IN IF mid * mid <= n THEN ISqrtIn(n, mid, hi) ELSE ISqrtIn(n, lo, mid)

\* floor(sqrt(n)) for 0 <= n < 46340^2
ISqrt(n) == ISqrtIn(n, 0, 46340)

(***************************************************************************)
(* Layouts (settings.LEVELS).  A grid is a sequence of rows, a row a       *)
(* sequence of cells: "W" wall, " " empty, "P" player start, "H" hole.     *)
(* The model plays small grids of the same cell alphabet and tile size.    *)
(***************************************************************************)
None == <<>>

Corridor == << <<"W", "W", "W", "W">>,
               <<"W", "P", "H", "W">>,
               <<"W", "W", "W", "W">> >>

NoStart  == << <<"W", "W", "W", "W">>,
               <<"W", " ", "H", "W">>,
               <<"W", "W", "W", "W">> >>

NoHole   == << <<"W", "W", "W", "W">>,
               <<"W", "P", " ", "W">>,
               <<"W", "W", "W", "W">> >>

LevelNames == {"Easy", "Medium", "Hard"}

LevelSet(easy, medium, hard) ==
    [n \in LevelNames |-> IF n = "Easy" THEN easy ELSE IF n = "Medium" THEN medium ELSE hard]

AllPlayable == LevelSet(Corridor, Corridor, Corridor)

LevelSets == { AllPlayable,
               LevelSet(Corridor, NoStart, Corridor),
               LevelSet(Corridor, Corridor, NoHole),
               LevelSet(NoHole, Corridor, Corridor) }

(***************************************************************************)
(* The layouts of settings.LEVELS, cell by cell.  The rows of "Hard" have  *)
(* different lengths, as in the source.                                    *)
(***************************************************************************)
BuiltInLevelsHardUnmarked == LevelSet(Corridor, Corridor, NoStart)

BuiltInLevels ==
    LET easy ==
          << <<"W", "W", "W", "W", "W", "W", "W", "W", "W", "W", "W", "W", "W", "W", "W", "W", "W", "W", "W", "W", "W", "W", "W", "W", "W", "W", "W", "W", "W", "W">>,
             <<"W", " ", "P", " ", " ", " ", " ", " ", " ", " ", " ", " ", " ", " ", " ", " ", " ", " ", " ", " ", " ", " ", " ", " ", " ", " ", " ", " ", " ", "W">>,
             <<"W", " ", " ", " ", " ", " ", " ", " ", " ", " ", " ", " ", " ", " ", " ", " ", " ", " ", " ", " ", " ", " ", " ", " ", " ", " ", " ", " ", " ", "W">>,
             <<"W", " ", " ", "W", "W", "W", "W", "W", "W", "W", "W", "W", "W", "W", "W", "W", "W", "W", "W", "W", "W", "W", "W", "W", "W", "W", "W", " ", " ", "W">>,
             <<"W", " ", " ", " ", " ", " ", " ", " ", " ", " ", " ", " ", " ", " ", " ", " ", " ", " ", " ", " ", " ", " ", " ", " ", " ", " ", " ", " ", " ", "W">>,
             <<"W", " ", " ", " ", " ", " ", " ", " ", " ", " ", " ", " ", " ", " ", " ", " ", " ", " ", " ", " ", " ", " ", " ", " ", " ", " ", " ", " ", " ", "W">>,
             <<"W", " ", " ", " ", " ", " ", " ", " ", " ", " ", " ", " ", " ", " ", " ", " ", " ", " ", " ", " ", " ", " ", " ", " ", " ", " ", " ", " ", " ", "W">>,
             <<"W", " ", " ", "W", "W", "W", "W", "W", "W", "W", "W", "W", "W", "W", "W", "W", "W", "W", "W", "W", "W", "W", "W", "W", "W", "W", "W", " ", " ", "W">>,
             <<"W", " ", " ", " ", " ", " ", " ", " ", " ", " ", " ", " ", " ", " ", " ", " ", " ", " ", " ", " ", " ", " ", " ", " ", " ", " ", " ", " ", " ", "W">>,
             <<"W", " ", " ", " ", " ", " ", " ", " ", " ", " ", " ", " ", " ", " ", " ", " ", " ", " ", " ", " ", " ", " ", " ", " ", " ", " ", " ", " ", " ", "W">>,
             <<"W", " ", " ", " ", " ", " ", " ", " ", " ", " ", " ", " ", " ", " ", " ", " ", " ", " ", " ", " ", " ", " ", " ", " ", " ", " ", " ", " ", " ", "H">>,
             <<"W", " ", " ", "W", "W", "W", "W", "W", "W", "W", "W", "W", "W", "W", "W", "W", "W", "W", "W", "W", "W", "W", "W", "W", "W", "W", "W", " ", " ", "W">>,
             <<"W", " ", " ", " ", " ", " ", " ", " ", " ", " ", " ", " ", " ", " ", " ", " ", " ", " ", " ", " ", " ", " ", " ", " ", " ", " ", " ", " ", " ", "W">>,
             <<"W", " ", " ", " ", " ", " ", " ", " ", " ", " ", " ", " ", " ", " ", " ", " ", " ", " ", " ", " ", " ", " ", " ", " ", " ", " ", " ", " ", " ", "W">>,
             <<"W", "W", "W", "W", "W", "W", "W", "W", "W", "W", "W", "W", "W", "W", "W", "W", "W", "W", "W", "W", "W", "W", "W", "W", "W", "W", "W", "W", "W", "W">> >>
        medium ==
          << <<"W", "W", "W", "W", "W", "W", "W", "W", "W", "W", "W", "W", "W", "W", "W", "W", "W", "W", "W", "W", "W", "W", "W", "W", "W", "W", "W", "W", "W", "W">>,
             <<"W", " ", "P", " ", " ", "W", " ", " ", " ", " ", " ", " ", " ", " ", " ", " ", " ", " ", " ", " ", " ", " ", " ", " ", " ", " ", " ", "H", " ", "W">>,
             <<"W", " ", " ", " ", " ", "W", " ", "W", "W", "W", " ", "W", "W", "W", "W", "W", "W", "W", "W", "W", "W", "W", "W", " ", "W", "W", "W", "W", " ", "W">>,
             <<"W", " ", "W", "W", "W", "W", " ", " ", " ", " ", " ", "W", " ", " ", " ", " ", " ", " ", " ", " ", " ", " ", "W", " ", " ", " ", " ", " ", " ", "W">>,
             <<"W", " ", "W", " ", " ", " ", " ", "W", "W", "W", "W", "W", " ", "W", "W", "W", "W", "W", "W", "W", "W", " ", "W", " ", "W", "W", "W", "W", " ", "W">>,
             <<"W", " ", "W", "W", "W", "W", " ", "W", " ", " ", " ", "W", " ", "W", " ", " ", " ", " ", " ", " ", "W", " ", "W", " ", "W", " ", " ", "W", " ", "W">>,
             <<"W", " ", "W", " ", " ", " ", " ", "W", " ", "W", " ", "W", " ", "W", " ", "W", "W", "W", "W", " ", "W", " ", "W", " ", "W", "W", " ", "W", " ", "W">>,
             <<"W", " ", "W", " ", "W", "W", "W", "W", " ", "W", " ", "W", " ", "W", " ", "W", " ", " ", "W", " ", "W", " ", "W", " ", " ", " ", " ", "W", " ", "W">>,
             <<"W", " ", "W", " ", " ", " ", " ", " ", " ", "W", " ", " ", " ", "W", " ", "W", "W", "W", "W", " ", "W", " ", "W", "W", "W", "W", "W", "W", " ", "W">>,
             <<"W", " ", "W", "W", "W", "W", "W", "W", "W", "W", "W", "W", "W", "W", " ", "W", " ", " ", " ", " ", "W", " ", " ", " ", " ", " ", " ", " ", " ", "W">>,
             <<"W", " ", " ", " ", " ", " ", " ", " ", " ", " ", " ", " ", " ", "W", " ", "W", "W", "W", "W", "W", "W", "W", "W", "W", "W", "W", "W", "W", " ", "W">>,
             <<"W", " ", "W", "W", "W", "W", "W", "W", "W", "W", "W", "W", " ", "W", " ", " ", " ", " ", " ", " ", " ", " ", " ", " ", " ", " ", " ", " ", " ", "W">>,
             <<"W", " ", " ", " ", " ", " ", " ", " ", " ", " ", " ", "W", " ", "W", "W", "W", "W", "W", "W", "W", "W", "W", "W", "W", "W", "W", "W", "W", " ", "W">>,
             <<"W", " ", "W", "W", "W", "W", "W", "W", "W", "W", " ", "W", " ", " ", " ", " ", " ", " ", " ", " ", " ", " ", " ", " ", " ", " ", " ", " ", " ", "W">>,
             <<"W", "W", "W", "W", "W", "W", "W", "W", "W", "W", "W", "W", "W", "W", "W", "W", "W", "W", "W", "W", "W", "W", "W", "W", "W", "W", "W", "W", "W", "W">> >>
        hard ==
          << <<"W", "W", "W", "W", "W", "W", "W", "W", "W", "W", "W", "W", "W", "W", "W", "W", "W", "W", "W", "W", "W", "W", "W", "W", "W", "W", "W", "W", "W", "W">>,
             <<"W", "P", " ", "W", " ", " ", " ", "W", " ", " ", " ", "W", " ", "W", " ", " ", " ", "W", " ", " ", " ", " ", " ", "W", " ", " ", " ", "H", " ", "W">>,
             <<"W", " ", " ", "W", " ", "W", " ", "W", " ", "W", "W", "W", " ", "W", " ", "W", " ", "W", " ", "W", "W", "W", "W", "W", " ", "W", "W", "W", " ", "W">>,
             <<"W", "W", " ", "W", " ", "W", " ", "W", " ", "W", " ", " ", " ", "W", " ", "W", " ", "W", " ", "W", " ", " ", " ", " ", " ", "W", " ", " ", " ", "W">>,
             <<"W", " ", " ", "W", " ", "W", " ", "W", " ", "W", " ", "W", "W", "W", " ", "W", " ", "W", " ", "W", " ", "W", "W", "W", "W", "W", " ", "W", "W", "W", " ", "W">>,
             <<"W", " ", "W", "W", " ", "W", " ", "W", " ", "W", " ", "W", " ", " ", " ", "W", " ", "W", " ", " ", " ", "W", " ", " ", " ", " ", " ", "W">>,
             <<"W", " ", "W", " ", " ", "W", " ", "W", " ", "W", " ", "W", " ", "W", "W", "W", "W", "W", "W", "W", "W", "W", " ", "W", "W", "W", " ", "W", " ", "W">>,
             <<"W", " ", "W", " ", "W", "W", "W", " ", "W", " ", " ", "W", " ", " ", "W", " ", " ", " ", "W", " ", "W", " ", " ", " ", "W", " ", " ", " ", " ", "W">>,
             <<"W", " ", "W", " ", "W", " ", " ", " ", "W", "W", "W", "W", "W", "W", "W", " ", "W", " ", "W", " ", "W", " ", "W", " ", "W", "W", "W", "W", "W", " ", "W">>,
             <<"W", " ", "W", " ", "W", " ", "W", "W", "W", "W", " ", " ", " ", " ", "W", " ", "W", " ", "W", " ", "W", " ", "W", " ", "W", " ", " ", " ", " ", " ", "W">>,
             <<"W", " ", "W", " ", "W", " ", "W", " ", " ", " ", "W", "W", "W", "W", "W", " ", "W", " ", "W", " ", "W", " ", "W", " ", "W", " ", "W", "W", "W", "W", "W">>,
             <<"W", " ", "W", " ", "W", " ", " ", " ", "W", " ", "W", " ", " ", " ", " ", " ", "W", " ", "W", " ", "W", " ", "W", " ", " ", " ", " ", " ", "W">>,
             <<"W", " ", "W", " ", "W", " ", "W", "W", "W", " ", "W", " ", "W", "W", "W", "W", "W", "W", "W", "W", "W", " ", "W", "W", "W", "W", "W", "W", " ", " ", "W">>,
             <<"W", " ", " ", " ", " ", " ", "W", " ", " ", " ", " ", " ", " ", " ", " ", " ", " ", " ", " ", " ", " ", " ", " ", " ", " ", " ", " ", " ", "W">>,
             <<"W", "W", "W", "W", "W", "W", "W", "W", "W", "W", "W", "W", "W", "W", "W", "W", "W", "W", "W", "W", "W", "W", "W", "W", "W", "W", "W", "W", "W", "W">> >>
    IN LevelSet(easy, medium, hard)

\* the (row, column) pairs, 0-based as enumerate() gives them, of the cells holding tile
Cells(level_map, tile) ==
    UNION { { <<r - 1, c - 1>> : c \in { k \in 1..Len(level_map[r]) : level_map[r][k] = tile } }
            : r \in 1..Len(level_map) }

\* the cell the double loop visits last: its assignment is the one that stays
LastCell(S) ==
    CHOOSE p \in S : \A q \in S : q[1] < p[1] \/ (q[1] = p[1] /\ q[2] <= p[2])

TileCenter(cell) ==
    <<cell[2] * TILE_SIZE + TILE_SIZE \div 2, cell[1] * TILE_SIZE + TILE_SIZE \div 2>>

BarriersOf(level_map) ==
    { <<cell[2] * TILE_SIZE, cell[1] * TILE_SIZE>> : cell \in Cells(level_map, "W") }

PlayerStartPos(level_map) ==
    IF Cells(level_map, "P") = {} THEN None ELSE TileCenter(LastCell(Cells(level_map, "P")))

HoleCenter(level_map) ==
    IF Cells(level_map, "H") = {} THEN None ELSE TileCenter(LastCell(Cells(level_map, "H")))

\* Ball.__init__: image.get_rect(center=(x, y)) of a BALL_SIZE square
BallRectAt(center) == <<center[1] - BALL_SIZE \div 2, center[2] - BALL_SIZE \div 2>>

\* player.rect.center
RectCenter(rect) == <<rect[1] + BALL_SIZE \div 2, rect[2] + BALL_SIZE \div 2>>

\* squared distance between two integer points
Dist2(p, q) == (p[1] - q[1]) * (p[1] - q[1]) + (p[2] - q[2]) * (p[2] - q[2])

\* start_vec.distance_to(hole_vec) * 1.5, in hundredths of a pixel: the distance is
\* floor(100 * sqrt(d2)), found as 100 * a + k from a = floor(sqrt(d2))
ShortestPath(start, goal) ==
    LET d2 == Dist2(start, goal)
        a  == ISqrt(d2)
        K  == { k \in 0..99 : 200 * a * k + k * k <= 10000 * (d2 - a * a) }
        k  == CHOOSE x \in K : \A y \in K : y <= x
    IN ((100 * a + k) * 3) \div 2

(***************************************************************************)
(* Control signal, motion and collision (Game._play_level, one frame).     *)
(***************************************************************************)
\* the grip gate: movement only if the force reading exceeds the threshold
GripGateAny(fsr) == TRUE

GripGateLoose(fsr) == fsr >= fsr_threshold

GripGate(fsr) == fsr > fsr_threshold

\* clamp(accel / TILT_SENSITIVITY, -1, 1) * PLAYER_SPEED, in 1/1000 px/s
TiltVelocityUnclamped(accel) == (accel * PLAYER_SPEED * 1000) \div TILT_SENSITIVITY

TiltVelocity(accel) ==
    (clamp(accel, -TILT_SENSITIVITY, TILT_SENSITIVITY) * PLAYER_SPEED * 1000) \div TILT_SENSITIVITY

\* (keys[a] - keys[b]) * PLAYER_SPEED, in 1/1000 px/s
KeyVelocityNoMinus(held, plus, minus) ==
    (IF plus \in held THEN 1 ELSE 0) * PLAYER_SPEED * 1000

KeyVelocity(held, plus, minus) ==
    ((IF plus \in held THEN 1 ELSE 0) - (IF minus \in held THEN 1 ELSE 0)) * PLAYER_SPEED * 1000

\* target_velocity.length() > 0
NonZeroBoth(v) == v[1] # 0 /\ v[2] # 0

NonZero(v) == v[1] # 0 \/ v[2] # 0

\* one component of player_velocity.lerp(target_velocity, PLAYER_ACCELERATION)
Lerp(v, t) ==
    RoundDiv((10 - PLAYER_ACCELERATION_TENTHS) * v + PLAYER_ACCELERATION_TENTHS * t, 10)

\* player_velocity.x *= -PLAYER_BOUNCINESS
BounceKeepSign(v) == RoundDiv(PLAYER_BOUNCINESS_TENTHS * v, 10)

Bounce(v) == RoundDiv(-PLAYER_BOUNCINESS_TENTHS * v, 10)

\* player.rect.x += player_velocity.x * dt: the float sum is truncated by the Rect
MoveAxis(pos, v, frame_dt) == TruncDiv(pos * 1000000 + v * frame_dt, 1000000)

\* Rect.colliderect of the ball at (x, y) with the barrier whose top-left corner is b
CollideRectCenter(x, y, b) ==
    /\ x + BALL_SIZE \div 2 < b[1] + TILE_SIZE
    /\ x + BALL_SIZE \div 2 > b[1]
    /\ y + BALL_SIZE \div 2 < b[2] + TILE_SIZE
    /\ y + BALL_SIZE \div 2 > b[2]

CollideRect(x, y, b) ==
    /\ x < b[1] + TILE_SIZE
    /\ x + BALL_SIZE > b[1]
    /\ y < b[2] + TILE_SIZE
    /\ y + BALL_SIZE > b[2]

\* pygame.sprite.spritecollide(player, barriers, False) is non-empty
SpriteCollide(x, y, group) == \E b \in group : CollideRect(x, y, b)

\* distance_to(hole.rect.center) < 15
CaptureTestInclusive(center, goal) == Dist2(center, goal) <= CAPTURE_RADIUS * CAPTURE_RADIUS

CaptureTest(center, goal) == Dist2(center, goal) < CAPTURE_RADIUS * CAPTURE_RADIUS

(***************************************************************************)
(* The serial line of one poll (Game._read_hardware_data).  A line is      *)
(*   kind "none"   : nothing waiting (in_waiting = 0)                      *)
(*   kind "decode" : the bytes do not decode                               *)
(*   kind "short"  : the line does not split into 7 fields                 *)
(*   kind "data"   : 7 fields f; field number bad (0-based) is the first   *)
(*                   that is no integer, bad = 7 when all are integers     *)
(***************************************************************************)
Line(kind, bad, f) == [kind |-> kind, bad |-> bad, f |-> f]
NoLine == Line("none", 7, <<0, 0, 0, 0, 0, 0, 0>>)

\* the assignments run in order, so a bad field leaves the earlier ones stored
ReadHardwareData(connected, got, fsr, accel, gyro) ==
    IF ~connected \/ got.kind # "data"
    THEN [ok |-> FALSE, fsr |-> fsr, accel |-> accel, gyro |-> gyro]
    ELSE [ok    |-> got.bad = 7,
          fsr   |-> IF got.bad >= 1 THEN got.f[1] ELSE fsr,
          accel |-> IF got.bad >= 4 THEN <<got.f[2], got.f[3], got.f[4]>> ELSE accel,
          gyro  |-> IF got.bad >= 7 THEN <<got.f[5], got.f[6], got.f[7]>> ELSE gyro]

(***************************************************************************)
(* Metrics dictionaries.  current_level_metrics refers to two list objects *)
(* (FSR_Readings_Move, Path_Points) that the level loop appends to in      *)
(* place; dict.copy() is shallow, so a copy refers to the same two lists.  *)
(* heap maps the identity of each live list to its contents.               *)
(***************************************************************************)
EmptyDict == <<>>

IsEmptyDict(d) == DOMAIN d = {}

\* "Min_FSR_Move": MAX_FSR_VALUE in the dict literal of a new level
MinForceSentinelThreshold == FSR_THRESHOLD

MinForceSentinel == MAX_FSR_VALUE

Metrics(level_name, fsr_ref, path_ref, shortest_path) ==
    [LevelName            |-> level_name,
     Duration             |-> 0,
     Max_FSR              |-> 0,
     Min_FSR_Move         |-> MinForceSentinel,
     FSR_Readings_Move    |-> fsr_ref,
     Grip_Lapses          |-> 0,
     Collision_Count      |-> 0,
     Path_Points          |-> path_ref,
     Shortest_Path_Length |-> shortest_path]

Refs(d) == IF IsEmptyDict(d) THEN {} ELSE {d.FSR_Readings_Move, d.Path_Points}

\* the lists reachable from the Game object
ReachableCurrentOnly(kind, cur, completed) == Refs(cur)

Reachable(kind, cur, completed) ==
    Refs(cur) \cup (IF kind = "text"
                    THEN UNION { Refs(completed[i]) : i \in 1..Len(completed) }
                    ELSE {})

\* garbage collection: only reachable lists stay
Collect(h, live) == [i \in live |-> h[i]]

\* the identity of a new list: the smallest one not in use
FreshId(used) ==
    CHOOSE i \in 1..(Cardinality(used) + 1) : i \notin used /\ \A j \in 1..(i - 1) : j \in used

\* a metrics dict with its lists read out
View(d, h) ==
    [LevelName            |-> d.LevelName,
     Duration             |-> d.Duration,
     Collision_Count      |-> d.Collision_Count,
     Max_FSR              |-> d.Max_FSR,
     Min_FSR_Move         |-> d.Min_FSR_Move,
     FSR_Readings_Move    |-> h[d.FSR_Readings_Move],
     Path_Points          |-> h[d.Path_Points],
     Shortest_Path_Length |-> d.Shortest_Path_Length]

(***************************************************************************)
(* The persistence layer (database.py).  Every call may fail: the          *)
(* exception is caught there and the call returns None (0) or [].          *)
(***************************************************************************)
\* json.dumps of a list of numbers or of points: the text of a JSON column.  A point,
\* a tuple in the game, is a two-element array in the text and a list once loaded;
\* the model writes both as <<x, y>>.
JsonDumps(value) == [json |-> value]

JsonLoads(text) == text.json

\* database.save_level_result: the row inserted into LevelResults
ResultRow(sid, m) ==
    [session_id           |-> sid,
     level_name           |-> m.LevelName,
     duration_seconds     |-> m.Duration,
     collision_count      |-> m.Collision_Count,
     max_fsr              |-> m.Max_FSR,
     min_fsr_move         |-> m.Min_FSR_Move,
     fsr_readings_move    |-> JsonDumps(m.FSR_Readings_Move),
     path_points          |-> JsonDumps(m.Path_Points),
     shortest_path_length |-> m.Shortest_Path_Length]

\* database.get_session_results: one dict per row
ResultDict(row) ==
    [LevelName            |-> row.level_name,
     Duration             |-> row.duration_seconds,
     Collision_Count      |-> row.collision_count,
     Max_FSR              |-> row.max_fsr,
     Min_FSR_Move         |-> row.min_fsr_move,
     FSR_Readings_Move    |-> JsonLoads(row.fsr_readings_move),
     Path_Points          |-> JsonLoads(row.path_points),
     Shortest_Path_Length |-> row.shortest_path_length]

RECURSIVE SelectRows(_, _)
SelectRows(rows, sid) ==
    IF rows = <<>> THEN <<>>
    ELSE IF rows[1].session_id = sid
         THEN <<ResultDict(rows[1])>> \o SelectRows(Tail(rows), sid)
         ELSE SelectRows(Tail(rows), sid)

\* SELECT * FROM LevelResults WHERE session_id = %s ORDER BY id ASC
GetSessionResultsAllSessions(rows, sid, ok) ==
    IF ok THEN [i \in 1..Len(rows) |-> ResultDict(rows[i])] ELSE <<>>

GetSessionResults(rows, sid, ok) == IF ok THEN SelectRows(rows, sid) ELSE <<>>

\* SELECT id FROM Players WHERE LOWER(name) = LOWER(%s) AND gender = %s AND age = %s
FindPlayer(table, info) ==
    IF \E i \in 1..Len(table) : table[i] = info
    THEN CHOOSE i \in 1..Len(table) : table[i] = info
    ELSE 0

(***************************************************************************)
(* Derived statistics (Game._generate_report, _create_performance_chart).  *)
(* The floats of the code are modelled in fixed point: cov and path        *)
(* efficiency in hundredths of a percent, lengths in hundredths of a       *)
(* pixel, averages in hundredths of the unit averaged, each rounded down   *)
(* where the code divides or takes a root.                                 *)
(***************************************************************************)
RECURSIVE SumSeq(_)
SumSeq(q) == IF q = <<>> THEN 0 ELSE q[1] + SumSeq(Tail(q))

\* statistics.mean(values) of values given in hundredths; the caller guards the empty list
Mean(values) == RoundDiv(SumSeq(values), Len(values))

\* n^2 times the sum of the squared deviations from the mean
ScaledSquares(samples) ==
    LET n == Len(samples)
        total == SumSeq(samples)
    IN SumSeq([i \in 1..n |-> (n * samples[i] - total) * (n * samples[i] - total)])

\* (statistics.pstdev(samples) / statistics.mean(samples)) * 100, in hundredths
PopulationStdevOverMean(samples) ==
    (ISqrt((ScaledSquares(samples) * 10000) \div Len(samples)) * 100) \div SumSeq(samples)

\* (statistics.stdev(samples) / statistics.mean(samples)) * 100, in hundredths
StdevOverMean(samples) ==
    (ISqrt((ScaledSquares(samples) * 10000) \div (Len(samples) - 1)) * 100) \div SumSeq(samples)

\* _generate_report: cov = 0, replaced when there are at least two samples
CovReport(samples) ==
    IF Len(samples) > 1
    THEN IF SumSeq(samples) > 0 THEN StdevOverMean(samples) ELSE 0
    ELSE 0

\* _create_performance_chart: the value appended to level_covs
CovChart(samples) ==
    IF Len(samples) > 1
    THEN (IF SumSeq(samples) > 0 THEN StdevOverMean(samples) ELSE 0)
    ELSE 0

\* sum of distance_to over zip(points[:-1], points[1:]), in hundredths of a pixel
PathLength(points) ==
    SumSeq([i \in 1..(Len(points) - 1) |-> ISqrt(Dist2(points[i], points[i + 1]) * 10000)])

\* (shortest_path / path_len) * 100 if path_len > 0 else 0, in hundredths of a percent
PathEfficiencyCapped(shortest_path, path_len) ==
    IF path_len > 0 THEN Min(10000, (shortest_path * 10000) \div path_len) ELSE 0

PathEfficiency(shortest_path, path_len) ==
    IF path_len > 0 THEN (shortest_path * 10000) \div path_len ELSE 0

\* the entry of level_specific_data for one completed record (its lists read out)
LevelData(m) ==
    [name       |-> m.LevelName,
     duration   |-> m.Duration,
     collisions |-> m.Collision_Count,
     cov        |-> CovReport(m.FSR_Readings_Move),
     path_eff   |-> PathEfficiency(m.Shortest_Path_Length, PathLength(m.Path_Points))]

LevelSpecificData(records) == [i \in 1..Len(records) |-> LevelData(records[i])]

\* avg_cov, avg_collisions, avg_path_eff of a non-empty level_specific_data
AveragesFirstLevel(data) ==
    [avg_cov        |-> data[1].cov,
     avg_collisions |-> data[1].collisions * 100,
     avg_path_eff   |-> data[1].path_eff]

Averages(data) ==
    [avg_cov        |-> Mean([i \in 1..Len(data) |-> data[i].cov]),
     avg_collisions |-> Mean([i \in 1..Len(data) |-> data[i].collisions * 100]),
     avg_path_eff   |-> Mean([i \in 1..Len(data) |-> data[i].path_eff])]

\* the db variant guards each average: ... if level_specific_data else 0
GuardedAverages(data) ==
    IF data # <<>> THEN Averages(data)
    ELSE [avg_cov |-> 0, avg_collisions |-> 0, avg_path_eff |-> 0]

\* SELECT ... FROM LevelResults r JOIN GameSessions s ON r.session_id = s.id
\* WHERE s.player_id = %s
PlayerResults(rows, sessions, pid) ==
    SelectSeq(rows, LAMBDA row : /\ row.session_id \in 1..Len(sessions)
                                 /\ sessions[row.session_id] = pid)

\* database.get_player_history: None (no record) when the query fails, else the summary
GetPlayerHistory(rows, sessions, pid, ok) ==
    LET results == PlayerResults(rows, sessions, pid)
        counted == SelectSeq(results, LAMBDA row : Len(JsonLoads(row.fsr_readings_move)) > 1)
        all_level_covs ==
            [i \in 1..Len(counted) |->
                LET fsr_readings == JsonLoads(counted[i].fsr_readings_move)
                IN IF SumSeq(fsr_readings) > 0 THEN StdevOverMean(fsr_readings) ELSE 0]
    IN IF ~ok THEN <<>>
       ELSE <<[total_sessions      |-> Cardinality({results[i].session_id : i \in 1..Len(results)}),
               total_levels_played |-> Len(results),
               avg_grip_cov        |-> IF all_level_covs # <<>> THEN Mean(all_level_covs) ELSE 0]>>

(***************************************************************************)
(* The population baseline store (normal_user_thresholds.txt): one line    *)
(* "key:v1,v2,..." per metric.  A file is the sequence of its lines, a     *)
(* line the pair of its key and its values.  str() and float() are exact   *)
(* inverses on the values the program writes.  The store holds what the    *)
(* program wrote into it, and is read and written without I/O faults.      *)
(***************************************************************************)
ThresholdKeys == <<"avg_cov", "avg_collisions", "avg_path_eff">>

KeySet == {ThresholdKeys[i] : i \in 1..Len(ThresholdKeys)}

NoFile == [exists |-> FALSE, lines |-> <<>>]

File(lines) == [exists |-> TRUE, lines |-> lines]

\* the file the program writes for the three sequences
FileOfNewest(thresholds) ==
    File([i \in 1..Len(ThresholdKeys) |->
            <<ThresholdKeys[i], <<thresholds[ThresholdKeys[i]][Len(thresholds[ThresholdKeys[i]])]>> >>])

FileOf(thresholds) ==
    File([i \in 1..Len(ThresholdKeys) |-> <<ThresholdKeys[i], thresholds[ThresholdKeys[i]]>>])

\* for line in f: thresholds[key] = values (the last line of a key wins)
RECURSIVE ValuesOf(_, _)
ValuesOf(lines, key) ==
    IF lines = <<>> THEN <<>>
    ELSE IF lines[Len(lines)][1] = key THEN lines[Len(lines)][2]
         ELSE ValuesOf(SubSeq(lines, 1, Len(lines) - 1), key)

\* _update_normal_thresholds: the file written and the dict returned
UpdateNormalThresholdsStale(file, avg_cov, avg_collisions, avg_path_eff) ==
    LET loaded == [k \in KeySet |-> IF file.exists THEN ValuesOf(file.lines, k) ELSE <<>>]
        thresholds == [avg_cov        |-> Append(loaded.avg_cov, avg_cov),
                       avg_collisions |-> Append(loaded.avg_collisions, avg_collisions),
                       avg_path_eff   |-> Append(loaded.avg_path_eff, avg_path_eff)]
    IN [file   |-> FileOf(thresholds),
        result |-> [k \in KeySet |-> IF loaded[k] # <<>> THEN Mean(loaded[k]) ELSE 0]]

UpdateNormalThresholds(file, avg_cov, avg_collisions, avg_path_eff) ==
    LET loaded == [k \in KeySet |-> IF file.exists THEN ValuesOf(file.lines, k) ELSE <<>>]
        thresholds == [avg_cov        |-> Append(loaded.avg_cov, avg_cov),
                       avg_collisions |-> Append(loaded.avg_collisions, avg_collisions),
                       avg_path_eff   |-> Append(loaded.avg_path_eff, avg_path_eff)]
    IN [file   |-> FileOf(thresholds),
        result |-> [k \in KeySet |-> IF thresholds[k] # <<>> THEN Mean(thresholds[k]) ELSE 0]]

\* _load_normal_thresholds: the dict of the means; None and the empty dict, which the
\* caller does not tell apart, are both the empty function
LoadNormalThresholdsZeros(file) ==
    IF file.exists /\ file.lines # <<>>
    THEN [k \in {file.lines[i][1] : i \in 1..Len(file.lines)} |-> Mean(ValuesOf(file.lines, k))]
    ELSE [k \in KeySet |-> 0]

LoadNormalThresholds(file) ==
    IF ~file.exists THEN <<>>
    ELSE IF \E i \in 1..Len(file.lines) : file.lines[i][2] = <<>> THEN <<>>
    ELSE [k \in {file.lines[i][1] : i \in 1..Len(file.lines)} |-> Mean(ValuesOf(file.lines, k))]

\* one row of the table "Comparison with Normal User Benchmarks"
ComparisonRow(metric, yours, normal) ==
    [metric |-> metric, yours |-> yours, normal |-> normal, diff |-> yours - normal]

\* the rows of the table; none unless the user is a rehab patient and a baseline loads
Comparison(type, file, avg) ==
    IF type = "rehab" /\ DOMAIN LoadNormalThresholds(file) # {}
    THEN LET thresholds == LoadNormalThresholds(file)
         IN << ComparisonRow("Collisions", avg.avg_collisions, thresholds.avg_collisions),
               ComparisonRow("Grip CoV (%)", avg.avg_cov, thresholds.avg_cov),
               ComparisonRow("Path Eff (%)", avg.avg_path_eff, thresholds.avg_path_eff) >>
    ELSE <<>>

(***************************************************************************)
(* Construction (Game.__init__).                                           *)
(***************************************************************************)
\* what a report generation produced: the records it read, the per-level table, the CoV
\* values of the chart, the session averages (none, or one record), the dict the
\* baseline update returned (none, or one), the comparison rows and the historical
\* summary (none, or one)
NoReport == [built |-> FALSE, rows |-> <<>>, level_data |-> <<>>, chart_covs |-> <<>>,
             averages |-> <<>>, recorded |-> <<>>, comparison |-> <<>>, history |-> <<>>]

IdleLevel ==
    /\ barriers = {}
    /\ hole = None
    /\ player_rect = <<0, 0>>
    /\ player_velocity = <<0, 0>>
    /\ target_velocity = <<0, 0>>
    /\ elapsed = 0
    /\ level_running = FALSE
    /\ frames = 0
    /\ dt = 0
    /\ hardware_connected = FALSE
    /\ line = NoLine
    /\ keys = {}
    /\ old_pos = <<0, 0>>
    /\ x_collisions = FALSE
    /\ y_collisions = FALSE

InitialState(kind) == IF kind = "text" THEN "user_type_selection" ELSE "user_info_entry"

InitWith(layouts) ==
    /\ variant \in {"text", "db"}
    /\ ser \in BOOLEAN
    /\ LEVELS \in layouts
    /\ running = TRUE
    /\ game_state = InitialState(variant)
    /\ pc = "run"
    /\ user_type = ""
    /\ user_info = <<"", "", "">>
    /\ player_id = 0
    /\ session_id = 0
    /\ current_level_index = 0
    /\ completed_levels_metrics = <<>>
    /\ current_level_metrics = EmptyDict
    /\ heap = <<>>
    /\ current_fsr = 0
    /\ accel_data = <<0, 0, 0>>
    /\ gyro_data = <<0, 0, 0>>
    /\ starts = 0
    /\ Players = <<>>
    /\ GameSessions = <<>>
    /\ LevelResults = <<>>
    /\ save_calls = <<>>
    /\ report = NoReport
    /\ thresholds_file = NoFile
    /\ IdleLevel

Init == InitWith(LevelSets)

(***************************************************************************)
(* The menus.  One action per event a menu loop acts on; an iteration that *)
(* sees no such event changes nothing.                                     *)
(***************************************************************************)
\* what the user may have typed when Start Game is clicked on the info screen
UserInputs == { <<"ann", "f", "30">>, <<"ann", "", "">> }

AllFilled(info) == \A i \in 1..3 : info[i] # ""

\* while self.running: the handler of the current game_state is entered
InRunLoopIgnoringQuit(state) == pc = "run" /\ game_state = state

InRunLoop(state) == pc = "run" /\ running /\ game_state = state

MenuStates == {"user_type_selection", "user_info_entry", "main_menu", "settings",
               "show_history", "ask_continue"}

\* pygame.QUIT in any menu loop, or the Quit button of the main menu
MenuQuit ==
    /\ pc = "run" /\ running
    /\ game_state \in MenuStates
    /\ running' = FALSE
    /\ UNCHANGED <<cfgVars, game_state, pc, userVars, session_id, current_level_index,
                   completed_levels_metrics, current_level_metrics, heap, hwVars, starts,
                   dbVars, report, thresholds_file, lvlVars>>

GetUserType(type) ==
    /\ InRunLoop("user_type_selection")
    /\ user_type' = type
    /\ game_state' = "user_info_entry"
    /\ UNCHANGED <<cfgVars, running, pc, user_info, player_id, session_id,
                   current_level_index, completed_levels_metrics, current_level_metrics,
                   heap, hwVars, starts, dbVars, report, thresholds_file, lvlVars>>

\* database.add_player
AddPlayer(table, info, ok) ==
    IF ~ok THEN [id |-> 0, table |-> table]
    ELSE IF FindPlayer(table, info) # 0 THEN [id |-> FindPlayer(table, info), table |-> table]
    ELSE [id |-> Len(table) + 1, table |-> Append(table, info)]

GetUserInfo(info, ok) ==
    /\ InRunLoop("user_info_entry")
    /\ ~ok => (variant = "db" /\ AllFilled(info))
    /\ user_info' = info
    /\ IF ~AllFilled(info)
       THEN UNCHANGED <<game_state, player_id, Players>>
       ELSE IF variant = "text"
       THEN /\ game_state' = "main_menu"
            /\ UNCHANGED <<player_id, Players>>
       ELSE LET added == AddPlayer(Players, info, ok)
            IN /\ player_id' = added.id
               /\ Players' = added.table
               /\ game_state' = IF added.id # 0 THEN "main_menu" ELSE game_state
    /\ UNCHANGED <<cfgVars, running, pc, user_type, session_id, current_level_index,
                   completed_levels_metrics, current_level_metrics, heap, hwVars, starts,
                   GameSessions, LevelResults, save_calls, report, thresholds_file, lvlVars>>

\* Start Game: the level index the session begins at
StartLevelIndexKept(index) == index

StartLevelIndex(index) == 0

\* Start Game (text variant): the completed records the session begins with
StartCompletedKept(completed) == completed

StartCompleted(completed) == <<>>

\* database.create_game_session: the INSERT needs an existing player
CreateGameSession(sessions, pid, ok) ==
    IF ok /\ pid \in 1..Len(Players)
    THEN [id |-> Len(sessions) + 1, table |-> Append(sessions, pid)]
    ELSE [id |-> 0, table |-> sessions]

StartGameUnchecked(ok) ==
    /\ InRunLoop("main_menu")
    /\ starts < MaxStarts
    /\ ~ok => variant = "db"
    /\ IF variant = "text"
       THEN /\ completed_levels_metrics' = StartCompleted(completed_levels_metrics)
            /\ heap' = Collect(heap, Reachable(variant, current_level_metrics,
                                               completed_levels_metrics'))
            /\ UNCHANGED <<session_id, GameSessions>>
       ELSE LET created == CreateGameSession(GameSessions, player_id, ok)
            IN /\ session_id' = created.id
               /\ GameSessions' = created.table
               /\ UNCHANGED <<completed_levels_metrics, heap>>
    /\ current_level_index' = StartLevelIndex(current_level_index)
    /\ game_state' = "playing"
    /\ starts' = starts + 1
    /\ UNCHANGED <<cfgVars, running, pc, userVars, current_level_metrics, hwVars, Players,
                   LevelResults, save_calls, report, thresholds_file, lvlVars>>

StartGame(ok) ==
    /\ InRunLoop("main_menu")
    /\ starts < MaxStarts
    /\ ~ok => variant = "db"
    /\ IF variant = "text"
       THEN /\ current_level_index' = StartLevelIndex(current_level_index)
            /\ completed_levels_metrics' = StartCompleted(completed_levels_metrics)
            /\ game_state' = "playing"
            /\ heap' = Collect(heap, Reachable(variant, current_level_metrics,
                                               completed_levels_metrics'))
            /\ starts' = starts + 1
            /\ UNCHANGED <<session_id, GameSessions>>
       ELSE LET created == CreateGameSession(GameSessions, player_id, ok)
            IN /\ session_id' = created.id
               /\ GameSessions' = created.table
               /\ IF created.id # 0
                  THEN /\ current_level_index' = StartLevelIndex(current_level_index)
                       /\ game_state' = "playing"
                       /\ starts' = starts + 1
                  ELSE UNCHANGED <<current_level_index, game_state, starts>>
               /\ UNCHANGED <<completed_levels_metrics, heap>>
    /\ UNCHANGED <<cfgVars, running, pc, userVars, current_level_metrics, hwVars, Players,
                   LevelResults, save_calls, report, thresholds_file, lvlVars>>

\* a button that only changes the screen
MenuGoto(from, to) ==
    /\ InRunLoop(from)
    /\ game_state' = to
    /\ UNCHANGED <<cfgVars, running, pc, userVars, session_id, current_level_index,
                   completed_levels_metrics, current_level_metrics, heap, hwVars, starts,
                   dbVars, report, thresholds_file, lvlVars>>

Settings == MenuGoto("main_menu", "settings")

SettingsBack == MenuGoto("settings", "main_menu")

PlayerHistory == variant = "db" /\ MenuGoto("main_menu", "show_history")

HistoryBack == MenuGoto("show_history", "main_menu")

Continue == MenuGoto("ask_continue", "playing")

EndAndReport == MenuGoto("ask_continue", "generate_report")

(***************************************************************************)
(* Game._play_level: construction of the level.                            *)
(***************************************************************************)
\* run(): level_name = self.level_sequence[self.current_level_index]
LevelName == level_sequence[current_level_index + 1]

LevelMap == LEVELS[LevelName]

\* a layout without a player start or without a hole cannot be played
ConfigError(level_map) == PlayerStartPos(level_map) = None \/ HoleCenter(level_map) = None

\* the state a configuration error leaves the application in
ConfigErrorStateReport == "generate_report"

ConfigErrorState == "main_menu"

PlayLevelConfigErrorRestart ==
    /\ InRunLoop("playing")
    /\ ConfigError(LevelMap)
    /\ game_state' = ConfigErrorState
    /\ current_level_index' = 0
    /\ UNCHANGED <<cfgVars, running, pc, userVars, session_id,
                   completed_levels_metrics, current_level_metrics, heap, hwVars, starts,
                   dbVars, report, thresholds_file, lvlVars>>

PlayLevelConfigError ==
    /\ InRunLoop("playing")
    /\ ConfigError(LevelMap)
    /\ game_state' = ConfigErrorState
    /\ UNCHANGED <<cfgVars, running, pc, userVars, session_id, current_level_index,
                   completed_levels_metrics, current_level_metrics, heap, hwVars, starts,
                   dbVars, report, thresholds_file, lvlVars>>

PlayLevelBegin ==
    /\ InRunLoop("playing")
    /\ ~ConfigError(LevelMap)
    /\ LET start    == PlayerStartPos(LevelMap)
           goal     == HoleCenter(LevelMap)
           rect     == BallRectAt(start)
           kept     == Reachable(variant, EmptyDict, completed_levels_metrics)
           fsr_ref  == FreshId(kept)
           path_ref == FreshId(kept \cup {fsr_ref})
       IN /\ barriers' = BarriersOf(LevelMap)
          /\ hole' = goal
          /\ player_rect' = rect
          /\ current_level_metrics' =
                 Metrics(LevelName, fsr_ref, path_ref, ShortestPath(start, goal))
          /\ heap' = [i \in kept \cup {fsr_ref, path_ref} |->
                         IF i = fsr_ref THEN <<>>
                         ELSE IF i = path_ref THEN <<RectCenter(rect)>>
                         ELSE heap[i]]
    /\ player_velocity' = <<0, 0>>
    /\ target_velocity' = <<0, 0>>
    /\ elapsed' = 0
    /\ level_running' = TRUE
    /\ frames' = 0
    /\ pc' = "level"
    /\ UNCHANGED <<cfgVars, running, game_state, userVars, session_id, current_level_index,
                   completed_levels_metrics, hwVars, starts, dbVars, report, thresholds_file, dt,
                   hardware_connected, line, keys, old_pos, x_collisions, y_collisions>>

(***************************************************************************)
(* Game._play_level: one iteration of the level loop.  The input of a      *)
(* frame is what the environment supplies to it:                           *)
(*   tick    clock.tick(60), in ms                                         *)
(*   line    the serial line of this poll                                  *)
(*   keys    the direction keys held                                       *)
(*   sim_fsr the value random.uniform draws if it is called                *)
(*   quit    a pygame.QUIT event is in the queue                           *)
(***************************************************************************)
Input(tick, serial_line, held, sim_fsr, quit) ==
    [tick |-> tick, line |-> serial_line, keys |-> held, sim_fsr |-> sim_fsr, quit |-> quit]

\* Collision_Count after the two axis steps
CollisionCountPerFrame(count, xc, yc) == count + (IF xc \/ yc THEN 1 ELSE 0)

CollisionCount(count, xc, yc) == count + (IF xc THEN 1 ELSE 0) + (IF yc THEN 1 ELSE 0)

\* self.current_level_index += 1
NextLevelIndexSame(index) == index

NextLevelIndex(index) == index + 1

\* the state a completed level leaves the application in
StateAfterCompletionAsk(index) == "ask_continue"

StateAfterCompletionOffByOne(index) ==
    IF index > Len(level_sequence) THEN "generate_report" ELSE "ask_continue"

StateAfterCompletion(index) ==
    IF index >= Len(level_sequence) THEN "generate_report" ELSE "ask_continue"

\* level_running after the frame
LevelRunningAfterNoStop(captured, quit) == ~quit

LevelRunningAfter(captured, quit) == ~captured /\ ~quit

\* Max_FSR and Min_FSR_Move after a recorded sample
ExtremaOfLast(m, sample) == [m EXCEPT !.Max_FSR = sample, !.Min_FSR_Move = sample]

Extrema(m, sample) ==
    [m EXCEPT !.Max_FSR = Max(@, sample), !.Min_FSR_Move = Min(@, sample)]

\* target_velocity of the frame: from the sample of the poll when there is one, from
\* the keyboard otherwise
TargetVelocityLastSample(rd, held) ==
    IF rd.ok \/ held = {}
    THEN IF GripGate(rd.fsr)
         THEN <<TiltVelocity(rd.accel[1]), TiltVelocity(rd.accel[2])>>
         ELSE <<0, 0>>
    ELSE <<KeyVelocity(held, "RIGHT", "LEFT"), KeyVelocity(held, "DOWN", "UP")>>

TargetVelocity(rd, held) ==
    IF rd.ok
    THEN IF GripGate(rd.fsr)
         THEN <<TiltVelocity(rd.accel[1]), TiltVelocity(rd.accel[2])>>
         ELSE <<0, 0>>
    ELSE <<KeyVelocity(held, "RIGHT", "LEFT"), KeyVelocity(held, "DOWN", "UP")>>

\* current_level_metrics['Path_Points'].append(player.rect.center)
RecordPointOnMove(points, center) ==
    IF center = points[Len(points)] THEN points ELSE Append(points, center)

RecordPoint(points, center) == Append(points, center)

\* the whole frame, as a record of the values it leaves
FrameResult(in) ==
    LET frame_dt == Min(in.tick, MAX_DT_MS)
        rd       == ReadHardwareData(ser, in.line, current_fsr, accel_data, gyro_data)
        target   == TargetVelocity(rd, in.keys)
        moving   == NonZero(target)
        sample   == IF rd.ok THEN rd.fsr ELSE in.sim_fsr
        fsr      == IF rd.ok THEN rd.fsr ELSE IF moving THEN in.sim_fsr ELSE 0
        m0       == current_level_metrics
        m1       == IF moving THEN Extrema(m0, sample) ELSE m0
        h1       == IF moving
                    THEN [heap EXCEPT ![m0.FSR_Readings_Move] = Append(@, sample)]
                    ELSE heap
        v1       == <<Lerp(player_velocity[1], target[1]), Lerp(player_velocity[2], target[2])>>
        x1       == MoveAxis(player_rect[1], v1[1], frame_dt)
        xc       == SpriteCollide(x1, player_rect[2], barriers)
        x2       == IF xc THEN player_rect[1] ELSE x1
        vx2      == IF xc THEN Bounce(v1[1]) ELSE v1[1]
        y1       == MoveAxis(player_rect[2], v1[2], frame_dt)
        yc       == SpriteCollide(x2, y1, barriers)
        y2       == IF yc THEN player_rect[2] ELSE y1
        vy2      == IF yc THEN Bounce(v1[2]) ELSE v1[2]
        center   == RectCenter(<<x2, y2>>)
        h2       == [h1 EXCEPT ![m0.Path_Points] = RecordPoint(@, center)]
        captured == CaptureTest(center, hole)
        time     == elapsed + in.tick
        m2       == [m1 EXCEPT !.Collision_Count = CollisionCount(@, xc, yc),
                               !.Duration = IF captured THEN time ELSE @]
    IN [dt |-> frame_dt, ok |-> rd.ok, fsr |-> fsr, accel |-> rd.accel, gyro |-> rd.gyro,
        target |-> target, velocity |-> <<vx2, vy2>>, rect |-> <<x2, y2>>,
        xc |-> xc, yc |-> yc, metrics |-> m2, heap |-> h2, captured |-> captured,
        time |-> time]

\* self.completed_levels_metrics.append(self.current_level_metrics.copy()): the copy
\* is shallow, its lists are the lists of current_level_metrics
CompletedAfterDropped(completed, m) == completed

CompletedAfter(completed, m) == Append(completed, m)

\* a call database.save_level_result(session_id, metrics_dict)
SaveCall(sid, m) == [session_id |-> sid, metrics |-> m]

\* database.save_level_result: the INSERT needs an existing session
SaveLevelResult(rows, sid, m, ok) ==
    IF ok /\ sid \in 1..Len(GameSessions) THEN Append(rows, ResultRow(sid, m)) ELSE rows

Frame(in, ok) ==
    /\ pc = "level"
    /\ level_running
    /\ in.line.kind = "none" \/ ser
    /\ LET r == FrameResult(in)
       IN /\ ~ok => (variant = "db" /\ r.captured)
          /\ dt' = r.dt
          /\ hardware_connected' = r.ok
          /\ line' = in.line
          /\ keys' = IF r.ok THEN keys ELSE in.keys
          /\ current_fsr' = r.fsr
          /\ accel_data' = r.accel
          /\ gyro_data' = r.gyro
          /\ target_velocity' = r.target
          /\ player_velocity' = r.velocity
          /\ old_pos' = player_rect
          /\ player_rect' = r.rect
          /\ x_collisions' = r.xc
          /\ y_collisions' = r.yc
          /\ current_level_metrics' = r.metrics
          /\ heap' = r.heap
          /\ elapsed' = r.time
          /\ level_running' = LevelRunningAfter(r.captured, in.quit)
          /\ running' = ~in.quit
          /\ IF r.captured
             THEN /\ current_level_index' = NextLevelIndex(current_level_index)
                  /\ game_state' = StateAfterCompletion(current_level_index')
                  /\ IF variant = "text"
                     THEN /\ completed_levels_metrics' =
                                 CompletedAfter(completed_levels_metrics, r.metrics)
                          /\ UNCHANGED <<LevelResults, save_calls>>
                     ELSE /\ save_calls' = Append(save_calls,
                                                  SaveCall(session_id, View(r.metrics, r.heap)))
                          /\ LevelResults' = SaveLevelResult(LevelResults, session_id,
                                                             View(r.metrics, r.heap), ok)
                          /\ UNCHANGED completed_levels_metrics
             ELSE UNCHANGED <<current_level_index, game_state, completed_levels_metrics,
                              LevelResults, save_calls>>
    /\ frames' = frames + 1
    /\ UNCHANGED <<cfgVars, pc, userVars, session_id, starts, Players, GameSessions,
                   report, thresholds_file, barriers, hole>>

\* after the loop: the music stops and _play_level returns to run()
PlayLevelReturn ==
    /\ pc = "level"
    /\ ~level_running
    /\ pc' = "run"
    /\ barriers' = {}
    /\ hole' = None
    /\ player_rect' = <<0, 0>>
    /\ player_velocity' = <<0, 0>>
    /\ target_velocity' = <<0, 0>>
    /\ elapsed' = 0
    /\ level_running' = FALSE
    /\ frames' = 0
    /\ dt' = 0
    /\ hardware_connected' = FALSE
    /\ line' = NoLine
    /\ keys' = {}
    /\ old_pos' = <<0, 0>>
    /\ x_collisions' = FALSE
    /\ y_collisions' = FALSE
    /\ UNCHANGED <<cfgVars, running, game_state, userVars, session_id, current_level_index,
                   completed_levels_metrics, current_level_metrics, heap, hwVars, starts,
                   dbVars, report, thresholds_file>>

(***************************************************************************)
(* run(): the generate_report state.                                       *)
(***************************************************************************)
RECURSIVE Views(_, _)
Views(records, h) ==
    IF records = <<>> THEN <<>> ELSE <<View(records[1], h)>> \o Views(Tail(records), h)

\* if not self.completed_levels_metrics: return
ReportBuiltAlways(records) == TRUE

ReportBuilt(records) == records # <<>>

\* the CoV values _create_performance_chart plots
ChartCovs(records) == [i \in 1..Len(records) |-> CovChart(records[i].FSR_Readings_Move)]

\* if self.user_type == "normal": the update of the baseline store
RecordsBaselineAll(type) == TRUE

RecordsBaseline(type) == type = "normal"

\* _generate_report of the text variant on the records of the session
TextReport(records, type, file) ==
    LET data == LevelSpecificData(records)
        avg  == Averages(data)
    IN [built      |-> TRUE,
        rows       |-> records,
        level_data |-> data,
        chart_covs |-> ChartCovs(records),
        averages   |-> <<avg>>,
        recorded   |-> IF RecordsBaseline(type)
                       THEN <<UpdateNormalThresholds(file, avg.avg_cov, avg.avg_collisions,
                                                     avg.avg_path_eff).result>>
                       ELSE <<>>,
        comparison |-> Comparison(type, file, avg),
        history    |-> <<>>]

\* the baseline store after _generate_report of the text variant
TextReportFile(records, type, file) ==
    LET avg == Averages(LevelSpecificData(records))
    IN IF RecordsBaseline(type)
       THEN UpdateNormalThresholds(file, avg.avg_cov, avg.avg_collisions, avg.avg_path_eff).file
       ELSE file

\* _generate_report of the db variant on the rows read back
DbReport(records, historical_summary) ==
    LET data == LevelSpecificData(records)
    IN [built      |-> TRUE,
        rows       |-> records,
        level_data |-> data,
        chart_covs |-> ChartCovs(records),
        averages   |-> <<GuardedAverages(data)>>,
        recorded   |-> <<>>,
        comparison |-> <<>>,
        history    |-> historical_summary]

\* run(): self.current_level_index, self.completed_levels_metrics = 0, []
ReportedCompletedKept(completed) == completed

ReportedCompleted(completed) == <<>>

GenerateReport(ok, history_ok) ==
    /\ InRunLoop("generate_report")
    /\ ~ok => variant = "db"
    /\ ~history_ok => (variant = "db" /\ ok /\ SelectRows(LevelResults, session_id) # <<>>)
    /\ IF variant = "text"
       THEN LET records == Views(completed_levels_metrics, heap)
            IN IF ReportBuilt(records) /\ records = <<>>
               THEN \* statistics.mean of an empty list raises StatisticsError
                    /\ pc' = "raised"
                    /\ UNCHANGED <<game_state, current_level_index, completed_levels_metrics,
                                   heap, report, thresholds_file>>
               ELSE /\ report' = IF ReportBuilt(records)
                                 THEN TextReport(records, user_type, thresholds_file)
                                 ELSE NoReport
                    /\ thresholds_file' = IF ReportBuilt(records)
                                          THEN TextReportFile(records, user_type, thresholds_file)
                                          ELSE thresholds_file
                    /\ completed_levels_metrics' = ReportedCompleted(completed_levels_metrics)
                    /\ heap' = Collect(heap, Reachable(variant, current_level_metrics,
                                                       completed_levels_metrics'))
                    /\ current_level_index' = 0
                    /\ game_state' = "main_menu"
                    /\ UNCHANGED pc
       ELSE /\ completed_levels_metrics' = GetSessionResults(LevelResults, session_id, ok)
            /\ report' = IF ReportBuilt(completed_levels_metrics')
                         THEN DbReport(completed_levels_metrics',
                                       GetPlayerHistory(LevelResults, GameSessions,
                                                        player_id, history_ok))
                         ELSE NoReport
            /\ current_level_index' = 0
            /\ game_state' = "main_menu"
            /\ UNCHANGED <<heap, pc, thresholds_file>>
    /\ UNCHANGED <<cfgVars, running, userVars, session_id, current_level_metrics,
                   hwVars, starts, dbVars, lvlVars>>

(***************************************************************************)
(* The environment and the specifications.                                 *)
(*                                                                         *)
(* Spec is the whole application, both variants, played from construction  *)
(* to the end of the process.  In every frame the player steers right,     *)
(* with the device when it is connected and with the keyboard when it is   *)
(* not, and may close the window.                                          *)
(*                                                                         *)
(* SpecLevel is one attempt of the first level with the device connected,  *)
(* played with a richer alphabet of frames: samples at and just above the  *)
(* force threshold, clamped tilts, key combinations that run into walls,   *)
(* short and long frame times, frames without input.                       *)
(***************************************************************************)
NoKeys == {}
Sample(fsr, ax, ay) == Line("data", 7, <<fsr, ax, ay, 0, 0, 0, 0>>)
SimLow  == FSR_THRESHOLD + SIM_FSR_LOW_OFFSET
SimHigh == MAX_FSR_VALUE - SIM_FSR_HIGH_OFFSET

SessionInputs ==
    IF ser
    THEN { Input(100, Sample(600, 5000, 0), NoKeys, SimLow, q) : q \in BOOLEAN }
    ELSE { Input(100, NoLine, {"RIGHT"}, SimLow, q) : q \in BOOLEAN }

LevelInputs ==
    { Input(100, NoLine, NoKeys, SimLow, FALSE),
      Input(100, NoLine, NoKeys, SimLow, TRUE),
      Input(100, NoLine, {"RIGHT"}, SimLow, FALSE),
      Input(17,  NoLine, {"RIGHT"}, SimHigh, FALSE),
      Input(100, NoLine, {"LEFT", "DOWN"}, SimHigh, FALSE),
      Input(100, Sample(500, 5000, -5000), NoKeys, SimLow, FALSE),
      Input(100, Sample(501, 6000, 0), NoKeys, SimLow, FALSE),
      Input(100, Sample(4095, -6000, 2500), NoKeys, SimLow, FALSE) }

Next ==
    \/ MenuQuit
    \/ \E type \in {"normal", "rehab"} : GetUserType(type)
    \/ \E info \in UserInputs, ok \in BOOLEAN : GetUserInfo(info, ok)
    \/ \E ok \in BOOLEAN : StartGame(ok)
    \/ Settings
    \/ SettingsBack
    \/ PlayerHistory
    \/ HistoryBack
    \/ Continue
    \/ EndAndReport
    \/ PlayLevelConfigError
    \/ PlayLevelBegin
    \/ \E in \in SessionInputs, ok \in BOOLEAN : frames < MaxFrames /\ Frame(in, ok)
    \/ PlayLevelReturn
    \/ \E ok, history_ok \in BOOLEAN : GenerateReport(ok, history_ok)

Spec == Init /\ [][Next]_vars

InitLevel == Init /\ ser /\ LEVELS = AllPlayable

NextLevel ==
    \/ GetUserType("normal")
    \/ \E info \in UserInputs, ok \in BOOLEAN : GetUserInfo(info, ok)
    \/ \E ok \in BOOLEAN : StartGame(ok)
    \/ PlayLevelBegin
    \/ \E in \in LevelInputs, ok \in BOOLEAN : frames < MaxLevelFrames /\ Frame(in, ok)
    \/ PlayLevelReturn

SpecLevel == InitLevel /\ [][NextLevel]_vars

(***************************************************************************)
(* SpecPoll is the beginning of one attempt of the first level, with or    *)
(* without the device, played with every outcome of the poll and every     *)
(* combination of direction keys: a good sample, a line of the wrong       *)
(* length, bytes that do not decode, a line whose first, third or sixth    *)
(* field is no integer, and the sixteen sets of held keys.                 *)
(***************************************************************************)
DirectionKeys == {"LEFT", "RIGHT", "UP", "DOWN"}

Fields == <<600, 2500, -2500, 100, 7, 8, 9>>

PollLines ==
    { Line("data", 7, Fields),
      Line("data", 0, Fields),
      Line("data", 2, Fields),
      Line("data", 5, Fields),
      Line("short", 7, Fields),
      Line("decode", 7, Fields) }

PollInputs ==
    { Input(100, NoLine, held, SimLow, FALSE) : held \in SUBSET DirectionKeys }
    \cup { Input(100, NoLine, held, SimHigh, FALSE) : held \in {{"RIGHT"}, {"LEFT", "RIGHT"}} }
    \cup { Input(100, got, held, SimLow, FALSE) : got \in PollLines, held \in {NoKeys, {"RIGHT"}} }

InitPoll == Init /\ LEVELS = AllPlayable

NextPoll ==
    \/ GetUserType("normal")
    \/ \E info \in UserInputs, ok \in BOOLEAN : GetUserInfo(info, ok)
    \/ \E ok \in BOOLEAN : StartGame(ok)
    \/ PlayLevelBegin
    \/ \E in \in PollInputs, ok \in BOOLEAN : frames < MaxPollFrames /\ Frame(in, ok)

SpecPoll == InitPoll /\ [][NextPoll]_vars

(***************************************************************************)
(* SpecLayouts is the application as it is shipped, with the layouts of    *)
(* settings.LEVELS, from its start to the first frames of the first level. *)
(* The configuration-error branch of _play_level is no step of it: its     *)
(* guard is false of every built-in layout (BuiltInLayoutsWellFormed).     *)
(***************************************************************************)
InitLayouts == InitWith({BuiltInLevels})

NextLayouts ==
    \/ \E type \in {"normal", "rehab"} : GetUserType(type)
    \/ \E info \in UserInputs, ok \in BOOLEAN : GetUserInfo(info, ok)
    \/ \E ok \in BOOLEAN : StartGame(ok)
    \/ PlayLevelBegin
    \/ \E in \in LevelInputs : frames < MaxLayoutFrames /\ Frame(in, TRUE)
    \/ PlayLevelReturn

SpecLayouts == InitLayouts /\ [][NextLayouts]_vars

(***************************************************************************)
(* SpecRun is one long attempt of the first built-in level, whose first    *)
(* row leaves the ball a free run of a thousand pixels: with the device,   *)
(* every frame brings a sample of full force and of a tilt beyond the      *)
(* sensitivity on both axes, after a tick longer than the dt limit;        *)
(* without it, RIGHT and DOWN are held in every frame.  The ball           *)
(* accelerates along the row and bounces between the walls above and below *)
(* it; any frame may observe quit.                                         *)
(***************************************************************************)
RunInputs ==
    IF ser
    THEN { Input(250, Sample(MAX_FSR_VALUE, 6000, -6000), NoKeys, SimLow, q) : q \in BOOLEAN }
    ELSE { Input(100, NoLine, {"RIGHT", "DOWN"}, SimHigh, q) : q \in BOOLEAN }

NextRun ==
    \/ \E type \in {"normal", "rehab"} : GetUserType(type)
    \/ \E info \in UserInputs, ok \in BOOLEAN : GetUserInfo(info, ok)
    \/ \E ok \in BOOLEAN : StartGame(ok)
    \/ PlayLevelBegin
    \/ \E in \in RunInputs : frames < MaxRunFrames /\ Frame(in, TRUE)
    \/ PlayLevelReturn

SpecRun == InitLayouts /\ [][NextRun]_vars

(***************************************************************************)
(* SpecReport is one report generation, of either variant, on every        *)
(* session of up to MaxRecords completed records drawn from ReportRecords, *)
(* for both user types and for a baseline store that is absent, empty or   *)
(* holds one or two earlier sessions.  Force readings are in units of 100  *)
(* counts; the statistics of the report do not depend on the unit.  The    *)
(* sample lists are empty, a single sample, equal samples, distinct        *)
(* samples, and lists of mean zero and of negative mean, which only rows   *)
(* written to the database by other means can hold.  The paths stay at the *)
(* start, run straight for 10 px, run 10 px with a repeated point, and run *)
(* 10 px out and back; the shortest path of each is 15 px.                 *)
(***************************************************************************)
\* the sample list of a record and the index of its path in ReportPaths
ReportCases == { << <<>>, 1 >>, << <<5>>, 2 >>, << <<10, 10, 10>>, 4 >>, << <<10, 20>>, 2 >>,
                 << <<6, 30, 12>>, 3 >>, << <<-10, 10>>, 1 >>, << <<-10, -10>>, 3 >> }

ReportPaths == << << <<0, 0>> >>,
                  << <<0, 0>>, <<10, 0>> >>,
                  << <<0, 0>>, <<3, 4>>, <<3, 4>>, <<6, 8>> >>,
                  << <<0, 0>>, <<10, 0>>, <<0, 0>> >> >>

ReportShortestPath == ShortestPath(<<0, 0>>, <<10, 0>>)

RECURSIVE SeqMax(_, _)
SeqMax(q, base) == IF q = <<>> THEN base ELSE SeqMax(Tail(q), Max(base, q[1]))

RECURSIVE SeqMin(_, _)
SeqMin(q, base) == IF q = <<>> THEN base ELSE SeqMin(Tail(q), Min(base, q[1]))

\* a completed record with its lists read out: samples and the path of index way
ReportRecord(samples, way) ==
    [LevelName            |-> "Easy",
     Duration             |-> 1000 * way,
     Collision_Count      |-> way - 1,
     Max_FSR              |-> SeqMax(samples, 0),
     Min_FSR_Move         |-> SeqMin(samples, MinForceSentinel),
     FSR_Readings_Move    |-> samples,
     Path_Points          |-> ReportPaths[way],
     Shortest_Path_Length |-> ReportShortestPath]

ReportRecords == { ReportRecord(c[1], c[2]) : c \in ReportCases }

\* the sessions: the i-th record is the record of the i-th level of the sequence
ReportSessions ==
    UNION { { [i \in 1..n |-> [q[i] EXCEPT !.LevelName = level_sequence[i]]] :
              q \in [1..n -> ReportRecords] } : n \in 0..MaxRecords }

\* the baseline stores: no file, an empty file, one and two recorded sessions
ReportStores ==
    { NoFile,
      File(<<>>),
      FileOf([avg_cov |-> <<4714>>, avg_collisions |-> <<100>>, avg_path_eff |-> <<7500>>]),
      FileOf([avg_cov |-> <<4714, 0>>, avg_collisions |-> <<100, 250>>,
              avg_path_eff |-> <<7500, 15000>>]) }

\* the metrics dict of the i-th record, its lists at heap positions 2i-1 and 2i
ReportDict(r, i) ==
    [Metrics(r.LevelName, 2 * i - 1, 2 * i, r.Shortest_Path_Length)
        EXCEPT !.Duration = r.Duration, !.Collision_Count = r.Collision_Count,
               !.Max_FSR = r.Max_FSR, !.Min_FSR_Move = r.Min_FSR_Move]

ReportHeap(records) ==
    [j \in 1..(2 * Len(records)) |->
        IF j % 2 = 1 THEN records[(j + 1) \div 2].FSR_Readings_Move
        ELSE records[j \div 2].Path_Points]

InitReport ==
    /\ variant \in {"text", "db"}
    /\ ser = FALSE
    /\ LEVELS = AllPlayable
    /\ running = TRUE
    /\ game_state = "generate_report"
    /\ pc = "run"
    /\ user_type \in (IF variant = "text" THEN {"normal", "rehab"} ELSE {""})
    /\ user_info = <<"ann", "f", "30">>
    /\ player_id = (IF variant = "db" THEN 1 ELSE 0)
    /\ session_id = (IF variant = "db" THEN 1 ELSE 0)
    /\ \E records \in ReportSessions :
          /\ current_level_index = Len(records)
          /\ heap = ReportHeap(records)
          /\ current_level_metrics = (IF records = <<>> THEN EmptyDict
                                      ELSE ReportDict(records[Len(records)], Len(records)))
          /\ completed_levels_metrics =
                (IF variant = "text"
                 THEN [i \in 1..Len(records) |-> ReportDict(records[i], i)]
                 ELSE <<>>)
          /\ LevelResults = (IF variant = "db"
                             THEN [i \in 1..Len(records) |-> ResultRow(1, records[i])]
                             ELSE <<>>)
          /\ save_calls = (IF variant = "db"
                           THEN [i \in 1..Len(records) |-> SaveCall(1, records[i])]
                           ELSE <<>>)
    /\ current_fsr = 0
    /\ accel_data = <<0, 0, 0>>
    /\ gyro_data = <<0, 0, 0>>
    /\ starts = 1
    /\ Players = (IF variant = "db" THEN <<user_info>> ELSE <<>>)
    /\ GameSessions = (IF variant = "db" THEN <<1>> ELSE <<>>)
    /\ report = NoReport
    /\ thresholds_file \in (IF variant = "text" THEN ReportStores ELSE {NoFile})
    /\ IdleLevel

NextReport == \E ok, history_ok \in BOOLEAN : GenerateReport(ok, history_ok)

SpecReport == InitReport /\ [][NextReport]_vars

(***************************************************************************)
(* Observations shared by the properties below.                            *)
(***************************************************************************)
\* a step that is one iteration of the level loop
FrameStep == pc = "level" /\ frames' = frames + 1

\* the ball center is inside the capture radius of the goal after the step
InsideAfter ==
    Dist2(RectCenter(player_rect'), hole) < CAPTURE_RADIUS * CAPTURE_RADIUS

\* player_velocity after the lerp of the step, before the collision steps
LerpedVelocity ==
    <<Lerp(player_velocity[1], target_velocity'[1]),
      Lerp(player_velocity[2], target_velocity'[2])>>

\* the force samples recorded for the level being played
ForceSamples == heap[current_level_metrics.FSR_Readings_Move]

\* the completed records handed over in the current session, in order
SessionRecords ==
    IF variant = "text"
    THEN [i \in 1..Len(completed_levels_metrics) |->
              View(completed_levels_metrics[i], heap)]
    ELSE LET calls == SelectSeq(save_calls, LAMBDA c : c.session_id = session_id)
         IN [i \in 1..Len(calls) |-> calls[i].metrics]

SessionNames == [i \in 1..Len(SessionRecords) |-> SessionRecords[i].LevelName]

\* the rows of the table LevelResults stored under the current session id
SessionRows == SelectSeq(LevelResults, LAMBDA row : row.session_id = session_id)

\* the layout of the level about to be built has no "P" cell or no "H" cell
MissingCell ==
    LET grid == LEVELS[level_sequence[current_level_index + 1]]
        Has(tile) == \E r \in 1..Len(grid) : \E c \in 1..Len(grid[r]) : grid[r][c] = tile
    IN ~Has("P") \/ ~Has("H")

(***************************************************************************)
(* C1.  Grip gating on the hardware path: in every level frame that        *)
(* consumed a hardware sample whose force reading is less than or equal to *)
(* the force threshold (500), the resolved target velocity is exactly      *)
(* (0, 0) whatever the tilt, and no force sample is recorded in the frame  *)
(* (the sample list and the running force extrema stay as they were).      *)
(***************************************************************************)
GripGating ==
    [][(FrameStep /\ hardware_connected' /\ current_fsr' <= FSR_THRESHOLD)
          => /\ target_velocity' = <<0, 0>>
             /\ ForceSamples' = ForceSamples
             /\ current_level_metrics'.Max_FSR = current_level_metrics.Max_FSR
             /\ current_level_metrics'.Min_FSR_Move = current_level_metrics.Min_FSR_Move
      ]_vars

\* a frame took a sample at the threshold with both tilts non-zero, after a frame
\* that did record a sample
GripGatingWitness ==
    /\ pc = "level"
    /\ hardware_connected
    /\ current_fsr = FSR_THRESHOLD
    /\ accel_data[1] # 0 /\ accel_data[2] # 0
    /\ target_velocity = <<0, 0>>
    /\ Len(ForceSamples) > 0

(***************************************************************************)
(* C2.  Per-axis collision resolution: in every level frame, on each axis, *)
(* if the displacement on that axis makes the ball overlap an obstacle the *)
(* position on that axis is its pre-frame value and the velocity on that   *)
(* axis is -0.4 times its value after the lerp; if it does not, the        *)
(* position is the displaced one and the velocity is unchanged; the other  *)
(* axis is not affected, and collision_count grows by exactly one for each *)
(* axis that overlapped.                                                   *)
(***************************************************************************)
AxisCollisionResolution ==
    [][FrameStep =>
          LET v    == LerpedVelocity
              hits == (IF x_collisions' THEN 1 ELSE 0) + (IF y_collisions' THEN 1 ELSE 0)
          IN /\ x_collisions' => /\ player_rect'[1] = player_rect[1]
                                 /\ Abs(10 * player_velocity'[1] + 4 * v[1]) <= 5
             /\ ~x_collisions' => /\ player_rect'[1] = MoveAxis(player_rect[1], v[1], dt')
                                  /\ player_velocity'[1] = v[1]
             /\ y_collisions' => /\ player_rect'[2] = player_rect[2]
                                 /\ Abs(10 * player_velocity'[2] + 4 * v[2]) <= 5
             /\ ~y_collisions' => /\ player_rect'[2] = MoveAxis(player_rect[2], v[2], dt')
                                  /\ player_velocity'[2] = v[2]
             /\ current_level_metrics'.Collision_Count =
                    current_level_metrics.Collision_Count + hits
      ]_vars

\* the ball ran into a wall on the x axis only: it rebounds to the right while it
\* keeps moving on the y axis
AxisCollisionWitness ==
    /\ pc = "level"
    /\ x_collisions /\ ~y_collisions
    /\ player_rect[1] = old_pos[1]
    /\ player_velocity[1] > 0
    /\ player_rect[2] # old_pos[2]
    /\ current_level_metrics.Collision_Count >= 1

(***************************************************************************)
(* C3.  Corner collision accounting: in a frame where the x displacement   *)
(* overlaps an obstacle and, with x reverted, the y displacement overlaps  *)
(* one too, collision_count grows by exactly 2 and the ball is where it    *)
(* was before the frame on both axes; in every frame of a level            *)
(* collision_count grows by 0, 1 or 2 and never decreases.                 *)
(***************************************************************************)
CornerCollisionAccounting ==
    [][FrameStep =>
          LET growth == current_level_metrics'.Collision_Count
                            - current_level_metrics.Collision_Count
          IN /\ growth \in {0, 1, 2}
             /\ (x_collisions' /\ y_collisions') => /\ growth = 2
                                                    /\ player_rect' = player_rect
      ]_vars

\* a frame hit walls on both axes and left the ball where it was
CornerCollisionWitness ==
    /\ pc = "level"
    /\ x_collisions /\ y_collisions
    /\ player_rect = old_pos
    /\ current_level_metrics.Collision_Count >= 2

(***************************************************************************)
(* C4.  Level completion boundary: a frame completes the level (the level  *)
(* index advances, the level loop ends and the state leaves "playing") if  *)
(* and only if, after collision resolution, the distance from the ball     *)
(* center to the goal center is strictly less than 15; at exactly 15 the   *)
(* level is not completed.                                                 *)
(***************************************************************************)
CompletionBoundary ==
    [][FrameStep =>
          ((/\ current_level_index' = current_level_index + 1
            /\ ~level_running'
            /\ game_state' # "playing")
           <=> InsideAfter)
      ]_vars

\* after a frame the ball center is exactly 15 away from the goal center and the
\* level goes on
CompletionBoundaryWitness ==
    /\ pc = "level"
    /\ frames > 0
    /\ Dist2(RectCenter(player_rect), hole) = CAPTURE_RADIUS * CAPTURE_RADIUS
    /\ level_running
    /\ game_state = "playing"
    /\ current_level_index = 0

(***************************************************************************)
(* C5.  Every transition into the playing state caused by Start Game has   *)
(* current_level_index = 0, and the level built next is "Easy", whatever   *)
(* was played, abandoned or reported before.                               *)
(***************************************************************************)
StartGameAtFirstLevel ==
    [][/\ (game_state = "main_menu" /\ game_state' = "playing")
              => current_level_index' = 0
       /\ (pc = "run" /\ pc' = "level" /\ SessionRecords = <<>>)
              => current_level_metrics'.LevelName = "Easy"
      ]_vars

\* a second session was started from the menu that a configuration error at a
\* later level had returned to: no report was ever produced, a level was played
StartGameAtFirstLevelWitness ==
    /\ variant = "text"
    /\ starts = 2
    /\ pc = "run"
    /\ game_state = "playing"
    /\ current_level_index = 0
    /\ report = NoReport
    /\ ~IsEmptyDict(current_level_metrics)

(***************************************************************************)
(* C6.  A frame that completes the last level of the sequence ("Hard",     *)
(* index 2) sets game_state to generate_report, never to ask_continue; a   *)
(* frame that completes an earlier level sets it to ask_continue.          *)
(***************************************************************************)
FinalLevelReports ==
    [][(FrameStep /\ InsideAfter)
          => game_state' = IF current_level_index = 2 /\ current_level_metrics.LevelName = "Hard"
                           THEN "generate_report"
                           ELSE "ask_continue"
      ]_vars

\* the third level has just been completed
FinalLevelReportsWitness ==
    /\ pc = "level"
    /\ ~level_running
    /\ current_level_metrics.LevelName = "Hard"
    /\ current_level_metrics.Duration > 0
    /\ game_state = "generate_report"

(***************************************************************************)
(* C7.  Within one session the names of the completed levels, in           *)
(* completion order, always form a prefix of (Easy, Medium, Hard); the     *)
(* playing state is entered only from the main menu (at index 0) or from   *)
(* the continue prompt (index kept), and the level built at index k is the *)
(* k-th of the sequence and is built only when exactly the k levels before *)
(* it have been completed in the session.                                  *)
(***************************************************************************)
LevelOrder ==
    /\ [](/\ Len(SessionNames) <= Len(level_sequence)
          /\ \A i \in 1..Len(SessionNames) : SessionNames[i] = level_sequence[i])
    /\ [][/\ (game_state # "playing" /\ game_state' = "playing")
                 => \/ game_state = "main_menu" /\ current_level_index' = 0
                    \/ /\ game_state = "ask_continue"
                       /\ current_level_index' = current_level_index
                       /\ current_level_index = Len(SessionNames)
          /\ (pc = "run" /\ pc' = "level")
                 => /\ Len(SessionNames) = current_level_index
                    /\ current_level_metrics'.LevelName = level_sequence[current_level_index + 1]
         ]_vars

\* the third level is being played after the first two were completed
LevelOrderWitness ==
    /\ pc = "level"
    /\ level_running
    /\ frames > 0
    /\ current_level_index = 2
    /\ SessionNames = <<"Easy", "Medium">>

(***************************************************************************)
(* C8.  After every Start Game that enters the playing state the session's *)
(* sequence of completed records is empty (no row is stored under the new  *)
(* session id either), and the report a session produces holds no record   *)
(* from before it: it has at most one record per level completed in the    *)
(* session, each of a level completed in the session, and in the database  *)
(* variant each is a row stored under the session's own id.                *)
(***************************************************************************)
FreshSession ==
    [][/\ (game_state = "main_menu" /\ game_state' = "playing")
              => /\ SessionRecords' = <<>>
                 /\ SessionRows' = <<>>
       /\ (game_state = "generate_report" /\ game_state' # "generate_report")
              => /\ Len(report'.rows) <= current_level_index
                 /\ \A i \in 1..Len(report'.rows) :
                        /\ \E k \in 1..current_level_index :
                               report'.rows[i].LevelName = level_sequence[k]
                        /\ variant = "db" =>
                               \E j \in 1..Len(SessionRows) :
                                   ResultDict(SessionRows[j]) = report'.rows[i]
      ]_vars

\* the second session of a player has reported its single completed level while the
\* table holds the rows of the first session, which completed more
FreshSessionWitness ==
    /\ variant = "db"
    /\ starts = 2
    /\ LEVELS = AllPlayable
    /\ pc = "run"
    /\ game_state = "main_menu"
    /\ session_id = 2
    /\ report.built
    /\ Len(report.rows) = 1
    /\ Len(LevelResults) >= 3

(***************************************************************************)
(* C9.  When the capture test succeeds in a frame, exactly one completed   *)
(* record of the level is handed over (appended to                         *)
(* completed_levels_metrics, or passed to save_level_result) with its      *)
(* duration set, current_level_index grows by exactly 1 and the level loop *)
(* ends; a frame without capture hands over nothing; no frame runs from a  *)
(* captured position, and a record handed over is never changed            *)
(* afterwards: not its collision count, its force samples or its path.     *)
(***************************************************************************)
CaptureHandsOver ==
    [][/\ (FrameStep /\ InsideAfter)
              => /\ current_level_index' = current_level_index + 1
                 /\ ~level_running'
                 /\ current_level_metrics'.Duration = elapsed'
                 /\ current_level_metrics'.Duration > 0
                 /\ SessionRecords' =
                        Append(SessionRecords, View(current_level_metrics', heap'))
                 /\ variant = "text" =>
                        completed_levels_metrics' =
                            Append(completed_levels_metrics, current_level_metrics')
                 /\ variant = "db" =>
                        Len(save_calls') = Len(save_calls) + 1
       /\ (FrameStep /\ ~InsideAfter)
              => /\ current_level_index' = current_level_index
                 /\ completed_levels_metrics' = completed_levels_metrics
                 /\ save_calls' = save_calls
                 /\ LevelResults' = LevelResults
       /\ FrameStep
              => Dist2(RectCenter(player_rect), hole) >= CAPTURE_RADIUS * CAPTURE_RADIUS
       /\ \A i \in 1..Len(SessionRecords) :
              (session_id' = session_id /\ i <= Len(SessionRecords'))
                  => SessionRecords'[i] = SessionRecords[i]
       /\ \A i \in 1..Len(save_calls) :
              i <= Len(save_calls') /\ save_calls'[i] = save_calls[i]
      ]_vars

\* the first level was captured: its record is the only one of the session, the
\* level loop has ended
CaptureHandsOverWitness ==
    /\ pc = "level"
    /\ ~level_running
    /\ running
    /\ current_level_index = 1
    /\ Len(SessionRecords) = 1
    /\ SessionRecords[1].Duration > 0
    /\ SessionRecords[1].Path_Points = heap[current_level_metrics.Path_Points]

(***************************************************************************)
(* C10.  Configuration error: when the layout of the level to play has no  *)
(* player-start cell or no goal cell, the step out of the playing state    *)
(* runs no frame, sets game_state to main_menu and leaves the process      *)
(* running, current_level_index and the completed records unchanged.       *)
(***************************************************************************)
ConfigurationError ==
    [][(pc = "run" /\ running /\ game_state = "playing" /\ MissingCell)
          => /\ game_state' = "main_menu"
             /\ running'
             /\ pc' = "run"
             /\ frames' = 0
             /\ current_level_index' = current_level_index
             /\ completed_levels_metrics' = completed_levels_metrics
             /\ current_level_metrics' = current_level_metrics
             /\ save_calls' = save_calls
             /\ LevelResults' = LevelResults
      ]_vars

\* the second level could not be built: the menu is back, the first level's record
\* and the level index are still there
ConfigurationErrorWitness ==
    /\ pc = "run"
    /\ running
    /\ game_state = "main_menu"
    /\ current_level_index = 1
    /\ Len(SessionRecords) = 1
    /\ SessionNames = <<"Easy">>

(***************************************************************************)
(* C11.  Force sampling follows the intent to move: every level frame      *)
(* whose resolved target velocity is non-zero appends exactly one force    *)
(* sample to the sample list, also when the ball is blocked by a wall on   *)
(* one or both axes in that frame; every frame whose target velocity is    *)
(* zero leaves the sample list, Max_FSR and Min_FSR_Move as they were.     *)
(***************************************************************************)
ForceSamplingOnIntent ==
    [][FrameStep =>
          IF target_velocity' # <<0, 0>>
          THEN /\ Len(ForceSamples') = Len(ForceSamples) + 1
               /\ SubSeq(ForceSamples', 1, Len(ForceSamples)) = ForceSamples
               /\ ForceSamples'[Len(ForceSamples')] = current_fsr'
          ELSE /\ ForceSamples' = ForceSamples
               /\ current_level_metrics'.Max_FSR = current_level_metrics.Max_FSR
               /\ current_level_metrics'.Min_FSR_Move = current_level_metrics.Min_FSR_Move
      ]_vars

\* the ball was blocked on both axes in the last frame and did not move, and yet every
\* frame of the level so far recorded a sample
ForceSamplingOnIntentWitness ==
    /\ pc = "level"
    /\ frames >= 3
    /\ x_collisions /\ y_collisions
    /\ player_rect = old_pos
    /\ target_velocity # <<0, 0>>
    /\ Len(ForceSamples) = frames

(***************************************************************************)
(* C12.  Min-force sentinel: a level starts with Min_FSR_Move equal to the *)
(* sentinel MAX_FSR_VALUE (4095); no frame of the level increases it; and  *)
(* as long as the level has no motion frame, also once it is over, it is   *)
(* still the sentinel.                                                     *)
(***************************************************************************)
MinForceSentinelKept ==
    /\ [](~IsEmptyDict(current_level_metrics) /\ ForceSamples = <<>>
              => current_level_metrics.Min_FSR_Move = MAX_FSR_VALUE)
    /\ [][/\ (pc = "run" /\ pc' = "level")
                 => current_level_metrics'.Min_FSR_Move = MAX_FSR_VALUE
          /\ FrameStep
                 => current_level_metrics'.Min_FSR_Move <= current_level_metrics.Min_FSR_Move
         ]_vars

\* a level was abandoned after three or more frames none of which was a motion frame
MinForceSentinelWitness ==
    /\ pc = "run"
    /\ ~running
    /\ ~IsEmptyDict(current_level_metrics)
    /\ ForceSamples = <<>>
    /\ Len(heap[current_level_metrics.Path_Points]) >= 4
    /\ current_level_metrics.Min_FSR_Move = MAX_FSR_VALUE

(***************************************************************************)
(* C13.  Transient sensor error, as claimed: in every level frame whose    *)
(* poll found a line that could not be used (wrong number of fields, a     *)
(* field that is no integer, bytes that do not decode), the stored sensor  *)
(* state after the frame (current_fsr, accel_data, gyro_data) equals the   *)
(* stored sensor state before the frame, and the level loop goes on.       *)
(***************************************************************************)
SensorStateRetained ==
    [][(FrameStep /\ line'.kind # "none" /\ ~hardware_connected')
          => /\ current_fsr' = current_fsr
             /\ accel_data' = accel_data
             /\ gyro_data' = gyro_data
             /\ level_running'
      ]_vars

(***************************************************************************)
(* C14, as claimed.  Keyboard fallback force: in every level frame         *)
(* resolved from the keyboard the force value is a synthetic sample inside *)
(* [FSR_THRESHOLD + 200, MAX_FSR_VALUE - 500] whenever at least one of the *)
(* four direction keys is held, opposite keys held together included, and  *)
(* 0 when no direction key is held.                                        *)
(***************************************************************************)
KeyboardForceAnyKey ==
    [][(FrameStep /\ ~hardware_connected')
          => IF keys' # {}
             THEN current_fsr' \in (FSR_THRESHOLD + 200)..(MAX_FSR_VALUE - 500)
             ELSE current_fsr' = 0
      ]_vars

(***************************************************************************)
(* C14, amended.  In every level frame resolved from the keyboard the      *)
(* force value is a synthetic sample inside [FSR_THRESHOLD + 200,          *)
(* MAX_FSR_VALUE - 500], and is recorded as the sample of the frame,       *)
(* whenever the held keys do not cancel on both axes (exactly one of       *)
(* left/right or exactly one of up/down is held); it is 0, and no sample   *)
(* is recorded, when no key is held or the held keys cancel on both axes.  *)
(***************************************************************************)
KeyboardForceNetDirection ==
    [][(FrameStep /\ ~hardware_connected')
          => IF \/ ("RIGHT" \in keys') # ("LEFT" \in keys')
                \/ ("DOWN" \in keys') # ("UP" \in keys')
             THEN /\ current_fsr' \in (FSR_THRESHOLD + 200)..(MAX_FSR_VALUE - 500)
                  /\ ForceSamples' = Append(ForceSamples, current_fsr')
             ELSE /\ current_fsr' = 0
                  /\ ForceSamples' = ForceSamples
      ]_vars

\* left and right were held together in a keyboard frame that followed a frame with a
\* synthetic sample: the force value is 0
KeyboardForceWitness ==
    /\ pc = "level"
    /\ frames = 2
    /\ ~hardware_connected
    /\ keys = {"LEFT", "RIGHT"}
    /\ current_fsr = 0
    /\ Len(ForceSamples) = 1

(***************************************************************************)
(* C15.  Report with an empty completed sequence: when the report state    *)
(* runs and the sequence of completed records it reads (the list of the    *)
(* session in the text variant, the rows read back in the db variant) is   *)
(* empty, no report is built, the baseline store is not modified, nothing  *)
(* is raised, and the application is back in the main menu with            *)
(* current_level_index = 0.                                                *)
(***************************************************************************)
EmptySequenceReport ==
    [][(/\ InRunLoop("generate_report")
        /\ IF variant = "text" THEN completed_levels_metrics = <<>>
                               ELSE completed_levels_metrics' = <<>>)
          => /\ report' = NoReport
             /\ thresholds_file' = thresholds_file
             /\ pc' = "run"
             /\ running'
             /\ game_state' = "main_menu"
             /\ current_level_index' = 0
      ]_vars

\* a normal user's report ran on an empty sequence with one session in the baseline
\* store: main menu, no report, the store as it was
EmptySequenceReportWitness ==
    /\ variant = "text"
    /\ user_type = "normal"
    /\ IsEmptyDict(current_level_metrics)
    /\ game_state = "main_menu"
    /\ pc = "run"
    /\ current_level_index = 0
    /\ ~report.built
    /\ thresholds_file.exists
    /\ Len(thresholds_file.lines) = 3
    /\ Len(thresholds_file.lines[1][2]) = 1

(***************************************************************************)
(* C16.  Coefficient of variation: in every report built, the CoV of each  *)
(* level is 0 when the level has fewer than two samples, 0 when the mean   *)
(* of the samples is not positive, 0 when all samples are equal, and       *)
(* otherwise (sample standard deviation / mean) * 100: with n samples of   *)
(* sum T and squared deviations S = sum (n x - T)^2, the whole percent p   *)
(* of the CoV satisfies p^2 T^2 (n-1) <= 10^4 S < (p+1)^2 T^2 (n-1).  The  *)
(* value plotted in the chart is the value of the report table.            *)
(***************************************************************************)
CoefficientOfVariation ==
    report.built =>
        /\ Len(report.level_data) = Len(report.rows)
        /\ Len(report.chart_covs) = Len(report.rows)
        /\ \A i \in 1..Len(report.rows) :
              LET x   == report.rows[i].FSR_Readings_Move
                  n   == Len(x)
                  T   == SumSeq(x)
                  S   == SumSeq([j \in 1..n |-> (n * x[j] - T) * (n * x[j] - T)])
                  cov == report.level_data[i].cov
                  p   == cov \div 100
              IN /\ report.chart_covs[i] = cov
                 /\ n < 2 => cov = 0
                 /\ T <= 0 => cov = 0
                 /\ (\A j, k \in 1..n : x[j] = x[k]) => cov = 0
                 /\ (n >= 2 /\ T > 0)
                       => /\ p * p * T * T * (n - 1) <= 10000 * S
                          /\ 10000 * S < (p + 1) * (p + 1) * T * T * (n - 1)

\* a report of two levels: samples 10 and 20 (CoV 47.13 %) and samples -10 and 10 (mean
\* zero, CoV 0)
CoefficientOfVariationWitness ==
    /\ report.built
    /\ Len(report.rows) = 2
    /\ report.rows[1].FSR_Readings_Move = <<10, 20>>
    /\ report.level_data[1].cov = 4713
    /\ report.rows[2].FSR_Readings_Move = <<-10, 10>>
    /\ report.level_data[2].cov = 0

(***************************************************************************)
(* C17.  Path efficiency: in every report built, with the path length of a *)
(* level the sum of the distances between consecutive path points, the     *)
(* path efficiency of the level is (shortest path / path length) * 100     *)
(* when the path length is positive and 0 otherwise; it is not capped at   *)
(* 100: a path of length 10 with shortest path 15 has efficiency 150.      *)
(***************************************************************************)
PathEfficiencyDefinition ==
    report.built =>
        \A i \in 1..Len(report.rows) :
           LET pts      == report.rows[i].Path_Points
               shortest == report.rows[i].Shortest_Path_Length
               length   == SumSeq([j \in 1..(Len(pts) - 1) |->
                                      ISqrt(Dist2(pts[j], pts[j + 1]) * 10000)])
               eff      == report.level_data[i].path_eff
           IN /\ length <= 0 => eff = 0
              /\ length > 0 => /\ eff * length <= shortest * 10000
                               /\ shortest * 10000 < (eff + 1) * length
              /\ (length = 1000 /\ shortest = 1500) => eff = 15000

\* a report of two levels: a straight path of 10 px with shortest path 15 px (efficiency
\* 150 %) and a path that never left the start (efficiency 0)
PathEfficiencyWitness ==
    /\ report.built
    /\ Len(report.rows) = 2
    /\ report.rows[1].Path_Points = << <<0, 0>>, <<10, 0>> >>
    /\ report.rows[1].Shortest_Path_Length = 1500
    /\ report.level_data[1].path_eff = 15000
    /\ report.rows[2].Path_Points = << <<0, 0>> >>
    /\ report.level_data[2].path_eff = 0

(***************************************************************************)
(* C18, as claimed.  Session aggregates: a report generation on an empty   *)
(* sequence of completed records yields the three aggregates, all 0.       *)
(***************************************************************************)
EmptySequenceAggregatesZero ==
    [][(InRunLoop("generate_report") /\ pc' = "run" /\ report'.rows = <<>>)
          => report'.averages = <<[avg_cov |-> 0, avg_collisions |-> 0, avg_path_eff |-> 0]>>
      ]_vars

(***************************************************************************)
(* C18, amended.  Session aggregates: a report generation on a non-empty   *)
(* sequence of completed records yields, as aggregate cov, collisions and  *)
(* path efficiency, the arithmetic means (to the nearest hundredth) of the *)
(* per-level values over all levels of the sequence; on an empty sequence  *)
(* it returns before any aggregate is computed, so that no aggregate is    *)
(* produced, and nothing is raised.                                        *)
(***************************************************************************)
SessionAggregates ==
    [][InRunLoop("generate_report")
          => /\ pc' = "run"
             /\ LET records == report'.rows
                    data    == report'.level_data
                    n       == Len(records)
                    IsMean(a, total) == 2 * Abs(a * n - total) <= n
                IN IF IF variant = "text" THEN completed_levels_metrics = <<>>
                                          ELSE completed_levels_metrics' = <<>>
                   THEN report'.averages = <<>>
                   ELSE /\ n > 0
                        /\ Len(data) = n
                        /\ Len(report'.averages) = 1
                        /\ IsMean(report'.averages[1].avg_cov,
                                  SumSeq([i \in 1..n |-> data[i].cov]))
                        /\ IsMean(report'.averages[1].avg_collisions,
                                  SumSeq([i \in 1..n |-> 100 * records[i].Collision_Count]))
                        /\ IsMean(report'.averages[1].avg_path_eff,
                                  SumSeq([i \in 1..n |-> data[i].path_eff]))
      ]_vars

\* a report of two levels with CoV 47.13 % and 0, 1 and 3 collisions, path efficiency
\* 150 % and 75 %: the aggregates are 23.57 %, 2 collisions and 112.5 %
SessionAggregatesWitness ==
    /\ report.built
    /\ Len(report.rows) = 2
    /\ report.level_data[1].cov = 4713 /\ report.level_data[2].cov = 0
    /\ report.rows[1].Collision_Count = 1 /\ report.rows[2].Collision_Count = 3
    /\ report.level_data[1].path_eff = 15000 /\ report.level_data[2].path_eff = 7500
    /\ report.averages = <<[avg_cov |-> 2357, avg_collisions |-> 200, avg_path_eff |-> 11250]>>

CooperativeQuit ==
    [][/\ (FrameStep /\ ~running')
              => /\ heap'[current_level_metrics.Path_Points] =
                        Append(heap[current_level_metrics.Path_Points],
                               RectCenter(player_rect'))
                 /\ ~SpriteCollide(player_rect'[1], player_rect'[2], barriers)
                 /\ InsideAfter <=> current_level_index' = current_level_index + 1
                 /\ ~level_running'
       /\ ~running
              => /\ pc = "level" /\ ~level_running /\ pc' = "run"
                 /\ UNCHANGED <<running, game_state, userVars, session_id,
                                current_level_index, completed_levels_metrics,
                                current_level_metrics, heap, starts, dbVars, report,
                                thresholds_file>>
       /\ (pc = "run" /\ running /\ ~running')
              => /\ game_state \in MenuStates
                 /\ UNCHANGED <<cfgVars, game_state, pc, userVars, session_id,
                                current_level_index, completed_levels_metrics,
                                current_level_metrics, heap, hwVars, starts, dbVars,
                                report, thresholds_file, lvlVars>>
      ]_vars

\* the window was closed in the frame that completed the first level: _play_level has
\* returned, the application has stopped on the way to the continue screen
CooperativeQuitWitness ==
    /\ ~running
    /\ pc = "run"
    /\ game_state = "ask_continue"
    /\ current_level_index = 1
    /\ Len(SessionRecords) = 1

PathRecording ==
    [][LET points == heap[current_level_metrics.Path_Points]
           after  == heap'[current_level_metrics'.Path_Points]
           center == <<player_rect'[1] + BALL_SIZE \div 2, player_rect'[2] + BALL_SIZE \div 2>>
       IN /\ (pc = "run" /\ pc' = "level")
                 => /\ after = <<PlayerStartPos(LEVELS[level_sequence[current_level_index + 1]])>>
                    /\ frames' = 0
          /\ FrameStep
                 => /\ current_level_metrics'.Path_Points = current_level_metrics.Path_Points
                    /\ Len(after) = Len(points) + 1
                    /\ \A i \in 1..Len(points) : after[i] = points[i]
                    /\ after[Len(after)] = center
                    /\ ~SpriteCollide(player_rect'[1], player_rect'[2], barriers)
          /\ pc' = "level" => Len(after) = frames' + 1]_vars

\* a level in which a frame with a collision, an idle frame and a frame that
\* observes quit have each recorded their point
PathRecordingWitness ==
    /\ pc = "level"
    /\ ~running
    /\ frames >= 3
    /\ current_level_metrics.Collision_Count > 0
    /\ LET points == heap[current_level_metrics.Path_Points]
       IN /\ Len(points) = frames + 1
          /\ points[Len(points)] = points[Len(points) - 1]
          /\ points[2] # points[1]

(***************************************************************************)
(* C27.  Motion integration: in every frame the new velocity is            *)
(* velocity + 0.1 * (target_velocity - velocity) whatever dt is, the dt    *)
(* used is at most 0.1 s, and on an axis without a collision the position  *)
(* of the ball after the frame is its position before the frame plus the   *)
(* new velocity times dt.  Positions are in pixels, velocities in 1/1000   *)
(* pixel per second and dt in milliseconds.                                *)
(***************************************************************************)
MotionIntegration ==
    [][FrameStep =>
          /\ dt' <= MAX_DT_MS
          /\ \A axis \in 1..2 :
                 LET collided == IF axis = 1 THEN x_collisions' ELSE y_collisions'
                 IN ~collided =>
                        /\ player_velocity'[axis] = LerpedVelocity[axis]
                        /\ 10 * LerpedVelocity[axis] =
                               10 * player_velocity[axis]
                               + (target_velocity'[axis] - player_velocity[axis])
                        /\ (player_rect'[axis] - player_rect[axis]) * 1000000
                               = player_velocity'[axis] * dt']_vars

(***************************************************************************)
(* C28.  Poll fallback: in every level frame in which the poll yields no   *)
(* new sample (no device, nothing waiting, or a bad line) the target       *)
(* velocity is computed from the keys held in that frame alone: tilt and   *)
(* force values received earlier do not contribute, and with no key held   *)
(* the target velocity of the frame is zero.                               *)
(***************************************************************************)
PollFallback ==
    [][(FrameStep /\ ~hardware_connected')
          => LET down(k) == IF k \in keys' THEN 1 ELSE 0
             IN /\ ~ser \/ line'.kind # "data" \/ line'.bad < 7
                /\ target_velocity' = <<(down("RIGHT") - down("LEFT")) * PLAYER_SPEED * 1000,
                                        (down("DOWN") - down("UP")) * PLAYER_SPEED * 1000>>
                /\ keys' = {} => target_velocity' = <<0, 0>>
      ]_vars

\* no key is held in a frame without a new sample, which follows a frame that moved
\* the ball by the tilt of a sample with the grip above the threshold
PollFallbackWitness ==
    /\ pc = "level"
    /\ frames = 2
    /\ ~hardware_connected
    /\ keys = {}
    /\ GripGate(Fields[1])
    /\ accel_data[1] = Fields[2]
    /\ player_velocity[1] = Lerp(Lerp(0, TiltVelocity(Fields[2])), 0)
    /\ player_velocity[1] # 0
    /\ target_velocity = <<0, 0>>

(***************************************************************************)
(* C29.  Running extrema: at every point of a level where the recorded     *)
(* force samples are non-empty and all lie in (0, MAX_FSR_VALUE], Max_FSR  *)
(* is the largest recorded sample and Min_FSR_Move the smallest; when no   *)
(* sample is recorded, Max_FSR is 0 and Min_FSR_Move is the sentinel       *)
(* MAX_FSR_VALUE.                                                          *)
(***************************************************************************)
RunningExtrema ==
    pc = "level" =>
        LET n == Len(ForceSamples)
            m == current_level_metrics
        IN IF n = 0
           THEN m.Max_FSR = 0 /\ m.Min_FSR_Move = MAX_FSR_VALUE
           ELSE (\A i \in 1..n : ForceSamples[i] > 0 /\ ForceSamples[i] <= MAX_FSR_VALUE)
                    => /\ \E i \in 1..n : ForceSamples[i] = m.Max_FSR
                       /\ \E i \in 1..n : ForceSamples[i] = m.Min_FSR_Move
                       /\ \A i \in 1..n : /\ ForceSamples[i] <= m.Max_FSR
                                          /\ ForceSamples[i] >= m.Min_FSR_Move

\* three or more samples are recorded, the newest of them neither the largest nor the
\* smallest
RunningExtremaWitness ==
    /\ pc = "level"
    /\ Len(ForceSamples) >= 3
    /\ \A i \in 1..Len(ForceSamples) : ForceSamples[i] > 0 /\ ForceSamples[i] <= MAX_FSR_VALUE
    /\ ForceSamples[Len(ForceSamples)] < current_level_metrics.Max_FSR
    /\ ForceSamples[Len(ForceSamples)] > current_level_metrics.Min_FSR_Move

(***************************************************************************)
(* C30.  Built-in layouts are well formed: each of the three layouts named *)
(* in level_sequence (Easy, Medium, Hard) exists in LEVELS and has exactly *)
(* one "P" cell and exactly one "H" cell, so that whenever a built-in      *)
(* level is about to be played the configuration-error branch is not the   *)
(* one taken.                                                              *)
(***************************************************************************)
BuiltInLayoutsWellFormed ==
    /\ level_sequence = <<"Easy", "Medium", "Hard">>
    /\ \A i \in 1..Len(level_sequence) :
           /\ level_sequence[i] \in DOMAIN LEVELS
           /\ Cardinality(Cells(LEVELS[level_sequence[i]], "P")) = 1
           /\ Cardinality(Cells(LEVELS[level_sequence[i]], "H")) = 1
           /\ PlayerStartPos(LEVELS[level_sequence[i]]) # None
           /\ HoleCenter(LEVELS[level_sequence[i]]) # None
    /\ InRunLoop("playing") => ~ConfigError(LevelMap)

\* the first built-in level is being played, from the start cell of its layout
BuiltInLayoutsWitness ==
    /\ pc = "level"
    /\ frames = MaxLayoutFrames
    /\ LEVELS = BuiltInLevels
    /\ LevelMap = BuiltInLevels["Easy"]
    /\ hole = TileCenter(<<10, 29>>)
    /\ heap[current_level_metrics.Path_Points][1] = TileCenter(<<1, 2>>)
    /\ Cardinality(barriers) > 4

(***************************************************************************)
(* C31.  Text variant: at every point where the outer loop dispatches on   *)
(* game_state, the number of completed level records equals                *)
(* current_level_index, and the i-th record carries the name               *)
(* level_sequence[i] (counting from the first level).                      *)
(***************************************************************************)
RecordsMatchIndex ==
    (variant = "text" /\ pc = "run" /\ running)
        => /\ Len(completed_levels_metrics) = current_level_index
           /\ current_level_index <= Len(level_sequence)
           /\ \A i \in 1..Len(completed_levels_metrics) :
                  completed_levels_metrics[i].LevelName = level_sequence[i]

\* the dispatch on main_menu after the second level, reached with Continue, could not
\* be built: one record, one level counted
RecordsMatchIndexWitness ==
    /\ variant = "text"
    /\ pc = "run"
    /\ running
    /\ game_state = "main_menu"
    /\ current_level_index = 1
    /\ Len(completed_levels_metrics) = 1
    /\ completed_levels_metrics[1].LevelName = "Easy"
    /\ ConfigError(LEVELS["Medium"])

(***************************************************************************)
(* C32.  Whenever game_state is playing or ask_continue,                   *)
(* 0 <= current_level_index < 3, so that the lookups                       *)
(* level_sequence[current_level_index] of the outer loop and of the        *)
(* continue prompt are in range, after any sequence of starts,             *)
(* completions, continues, reports and configuration errors.               *)
(***************************************************************************)
LevelIndexInRange ==
    game_state \in {"playing", "ask_continue"}
        => /\ current_level_index >= 0
           /\ current_level_index < 3
           /\ current_level_index + 1 \in DOMAIN level_sequence

\* the continue prompt for the last level, in a second session of the run, after the
\* first session ended in a report
LevelIndexInRangeWitness ==
    /\ pc = "run"
    /\ running
    /\ game_state = "ask_continue"
    /\ current_level_index = 2
    /\ starts = 2
    /\ report.built

(***************************************************************************)
(* C33.  Text variant: game_state is generate_report only when at least    *)
(* one level of the current session has been completed, so the report      *)
(* state, when it is handled, never finds the list of completed records    *)
(* empty and always builds a report.                                       *)
(***************************************************************************)
ReportHasRecords ==
    /\ []((variant = "text" /\ game_state = "generate_report")
              => /\ completed_levels_metrics # <<>>
                 /\ current_level_index >= 1)
    /\ [][(variant = "text" /\ InRunLoop("generate_report") /\ game_state' = "main_menu")
              => /\ report'.built
                 /\ report'.rows = Views(completed_levels_metrics, heap)
                 /\ report'.rows # <<>>]_vars

\* the report state is about to be handled after End & Report on the first level
ReportHasRecordsWitness ==
    /\ variant = "text"
    /\ InRunLoop("generate_report")
    /\ current_level_index = 1
    /\ Len(completed_levels_metrics) = 1

(***************************************************************************)
(* C34.  The ball never rests inside a wall: the start position overlaps   *)
(* no obstacle, and at the end of every frame, after the x and then the y  *)
(* resolution, the rectangle of the ball overlaps no obstacle, for every   *)
(* sequence of inputs and frame times.  Two rectangles overlap when their  *)
(* interiors share a point.                                                *)
(***************************************************************************)
NeverInsideWall ==
    pc = "level" =>
        \A b \in barriers :
            \/ player_rect[1] + BALL_SIZE <= b[1]
            \/ b[1] + TILE_SIZE <= player_rect[1]
            \/ player_rect[2] + BALL_SIZE <= b[2]
            \/ b[2] + TILE_SIZE <= player_rect[2]

\* a frame whose x step and y step both ran into a wall left the ball where it was,
\* after earlier frames had moved it
NeverInsideWallWitness ==
    /\ pc = "level"
    /\ frames >= 2
    /\ x_collisions
    /\ y_collisions
    /\ player_rect = old_pos
    /\ player_rect # BallRectAt(PlayerStartPos(LevelMap))
    /\ barriers # {}

(***************************************************************************)
(* C35.  Velocity bound: after every frame each component of the velocity  *)
(* of the ball has absolute value at most PLAYER_SPEED (260), for every    *)
(* sequence of hardware samples, key states and collisions; hence the ball *)
(* moves at most 26 pixels per axis in one frame, less than one tile (40). *)
(***************************************************************************)
VelocityBound ==
    /\ [](pc = "level" =>
              \A axis \in 1..2 : Abs(player_velocity[axis]) <= PLAYER_SPEED * 1000)
    /\ [][FrameStep =>
              \A axis \in 1..2 :
                  /\ Abs(player_rect'[axis] - player_rect[axis]) * 1000
                         <= PLAYER_SPEED * MAX_DT_MS
                  /\ Abs(player_rect'[axis] - player_rect[axis]) < TILE_SIZE]_vars

\* forty or more frames of full tilt or of a held key: the ball runs within 2% of
\* PLAYER_SPEED, moved 25 pixels in the last frame, and has bounced off a wall
VelocityBoundWitness ==
    /\ pc = "level"
    /\ frames >= 40
    /\ player_velocity[1] * 100 >= 98 * PLAYER_SPEED * 1000
    /\ player_velocity[1] <= PLAYER_SPEED * 1000
    /\ player_rect[1] - old_pos[1] = 25
    /\ current_level_metrics.Collision_Count > 0

(***************************************************************************)
(* C36.  Every value ever appended to the force samples of a level is      *)
(* strictly greater than the force threshold (500), with the device and    *)
(* from the keyboard alike; so the sum, and with it the mean, of a         *)
(* non-empty sample list of a record the game produced is positive.        *)
(***************************************************************************)
SamplesAboveThreshold ==
    /\ [][FrameStep =>
              \/ ForceSamples' = ForceSamples
              \/ /\ Len(ForceSamples') = Len(ForceSamples) + 1
                 /\ ForceSamples'[Len(ForceSamples')] > FSR_THRESHOLD]_vars
    /\ [](pc = "level" =>
              /\ \A i \in 1..Len(ForceSamples) : ForceSamples[i] > FSR_THRESHOLD
              /\ ForceSamples # <<>> => SumSeq(ForceSamples) > 0)
    /\ [](\A r \in 1..Len(SessionRecords) :
              LET samples == SessionRecords[r].FSR_Readings_Move
              IN /\ \A i \in 1..Len(samples) : samples[i] > FSR_THRESHOLD
                 /\ samples # <<>> => SumSeq(samples) > 0)

\* samples of the device and of the keyboard were recorded in a level in which a frame
\* with a reading equal to the threshold and a non-zero tilt recorded nothing
SamplesAboveThresholdWitness ==
    /\ pc = "level"
    /\ hardware_connected
    /\ current_fsr = FSR_THRESHOLD
    /\ accel_data[1] # 0
    /\ frames = 3
    /\ Len(ForceSamples) = 2
    /\ ForceSamples[1] = FSR_THRESHOLD + 1
    /\ ForceSamples[2] = SimLow

(***************************************************************************)
(* C37.  Text variant: a completed level record stored in                  *)
(* completed_levels_metrics is never changed by what is played later.  The *)
(* record is a shallow copy, yet in every step that keeps it in the list   *)
(* its collision count, force samples and path points (and its other       *)
(* fields) stay what they were when the level completed, and the report    *)
(* reads them so.                                                          *)
(***************************************************************************)
CompletedRecordsStable ==
    [][variant = "text" =>
          /\ Len(completed_levels_metrics') >= Len(completed_levels_metrics)
                 => \A i \in 1..Len(completed_levels_metrics) :
                        View(completed_levels_metrics'[i], heap')
                            = View(completed_levels_metrics[i], heap)
          /\ Len(completed_levels_metrics') = Len(completed_levels_metrics) + 1
                 => View(completed_levels_metrics'[Len(completed_levels_metrics')], heap')
                        = View(current_level_metrics', heap')
          /\ (InRunLoop("generate_report") /\ game_state' = "main_menu")
                 => report'.rows = Views(completed_levels_metrics, heap)]_vars

\* the third level is being played, and has recorded samples, while the records of
\* the first two levels are in the list, each with lists of its own
CompletedRecordsStableWitness ==
    /\ variant = "text"
    /\ pc = "level"
    /\ frames >= 1
    /\ Len(completed_levels_metrics) = 2
    /\ ForceSamples # <<>>
    /\ Cardinality(Refs(completed_levels_metrics[1]) \cup Refs(completed_levels_metrics[2])
                   \cup Refs(current_level_metrics)) = 6
    /\ heap[completed_levels_metrics[1].FSR_Readings_Move] # <<>>
    /\ Len(heap[completed_levels_metrics[1].Path_Points])
           > Len(heap[current_level_metrics.Path_Points])

(***************************************************************************)
(* C38.  Database variant: game_state is playing only when session_id is   *)
(* the identifier of a stored session and player_id the identifier of a    *)
(* stored player; a failed player creation keeps the application on the    *)
(* user-info screen and a failed session creation keeps it in the main     *)
(* menu, so no level result is ever saved under a null session id.         *)
(***************************************************************************)
PlayingHasSession ==
    /\ []((variant = "db" /\ game_state \in {"playing", "ask_continue"})
              => /\ session_id \in 1..Len(GameSessions)
                 /\ player_id \in 1..Len(Players)
                 /\ GameSessions[session_id] = player_id)
    /\ [](variant = "db" =>
              \A i \in 1..Len(save_calls) : save_calls[i].session_id \in 1..Len(GameSessions))
    /\ [][variant = "db" =>
              /\ (InRunLoop("user_info_entry") /\ player_id' = 0)
                     => game_state' = "user_info_entry"
              /\ (InRunLoop("main_menu") /\ session_id' = 0)
                     => game_state' # "playing"]_vars

\* a session was played and saved a result; a later Start Game could not create its
\* session: the identifier is null and the application is still in the main menu
PlayingHasSessionWitness ==
    /\ variant = "db"
    /\ InRunLoop("main_menu")
    /\ player_id = 1
    /\ session_id = 0
    /\ Len(GameSessions) = 1
    /\ save_calls # <<>>
    /\ save_calls[1].session_id = 1

(***************************************************************************)
(* C39.  Text variant: after the generate_report state is handled,         *)
(* game_state is main_menu, current_level_index is 0 and the list of       *)
(* completed level records is empty, whether or not a report was produced  *)
(* (one is produced exactly when the list was not empty); the user         *)
(* identity and the user type are unchanged.                               *)
(***************************************************************************)
ReportStateResets ==
    [][(variant = "text" /\ InRunLoop("generate_report"))
          => /\ game_state' = "main_menu"
             /\ current_level_index' = 0
             /\ completed_levels_metrics' = <<>>
             /\ report'.built = (completed_levels_metrics # <<>>)
             /\ user_type' = user_type
             /\ user_info' = user_info
             /\ player_id' = player_id
             /\ running' /\ pc' = "run"]_vars

\* the report state was handled for a rehab user with an empty list of records: no
\* report was produced and the application is in the main menu
ReportStateResetsWitness ==
    /\ variant = "text"
    /\ InRunLoop("main_menu")
    /\ ~report.built
    /\ starts = 1
    /\ user_type = "rehab"
    /\ user_info = <<"ann", "f", "30">>
    /\ current_level_index = 0
    /\ completed_levels_metrics = <<>>
    /\ IsEmptyDict(current_level_metrics)

====
